---- MODULE Spec2Model ----
(***************************************************************************)
(* Plaza gossip: the on-chain identity registry (UserRegistry), the        *)
(* conversation directory (DMRegistry) and the conversation ledger         *)
(* (DMConversation).                                                       *)
(*                                                                         *)
(* Every external function is one action.  A transaction whose `require`   *)
(* fails reverts and leaves the chain untouched, so the `require`          *)
(* conditions are the guards of the action: "the call fails" is "the       *)
(* action is not enabled".  The ledger executes transactions one at a      *)
(* time, so any interleaving of concurrently submitted calls is a          *)
(* sequence of actions.                                                    *)
(*                                                                         *)
(* Addresses are numbers (0 is address(0)), compared as the EVM compares   *)
(* them.  A string or bytes value is a record [len, id]: its length in     *)
(* bytes and its content; the contracts only measure, copy and compare     *)
(* such values.  keccak256 over a packed pair is taken to be collision     *)
(* free and is modelled as the pair itself.                                *)
(***************************************************************************)
EXTENDS Integers, Sequences, FiniteSets, TLC

VARIABLES
    profiles,           \* UserRegistry.profiles: address -> Profile
    profileLinks,       \* UserRegistry.profileLinks: address -> Link[]
    delegateToOwner,    \* UserRegistry.delegateToOwner: address -> address
    isDelegate,         \* UserRegistry.isDelegate: owner -> delegate -> bool
    sessionPublicKeys,  \* UserRegistry.sessionPublicKeys: address -> bytes
    userConversations,  \* DMRegistry.userConversations: address -> address[]
    conversationLookup, \* DMRegistry.conversationLookup: pair hash -> address
    conversations,      \* the deployed DMConversation contracts, in order of creation
    blockTimestamp,     \* block.timestamp of the block being executed
    last,               \* the last transaction that succeeded: its function and what it returned
    userAddress,        \* useAppWallet: the connected browser account (prop), 0 for null
    appWallet,          \* useAppWallet: the address of the delegate wallet, 0 for null
    isAuthorized,       \* useAppWallet: the delegate wallet is marked usable
    isLoading,          \* useAppWallet: an authorize call is running
    error,              \* useAppWallet: the last authorize call failed
    storedWallet,       \* localStorage: the saved delegate wallet and its owner, 0 for none
    generatedWallets,   \* how many delegate keys the client has generated
    checksInFlight,     \* checkAuthorization calls awaiting the chain's answer
    authorizing,        \* authorizeDelegate calls awaiting their transaction
    funding,            \* how many fundWallet calls await their transaction
    currentMode,        \* useAppWallet: the mode the hook is in
    walletMode,         \* App: the wallet mode the user chose
    standaloneWallet,   \* localStorage: the address of the in-app wallet key, 0 for none
    localSessionKey,    \* client storage: the session key pair of the account, "" for none
    hasLocalKey,        \* useSessionKeys: the hook's state, as the handlers read it
    sessionKeysGenerated, \* how many session key pairs the client has generated
    handlers,           \* App: where each effect or handler that sets up a key stands
    privateKeyA,        \* session private key of party A
    privateKeyB,        \* session private key of party B
    plaintext,          \* the message A encrypts: a sequence of bytes
    nonce,              \* the nonce drawn for the message
    blob,               \* the opaque blob handed to postMessage, <<>> for none yet
    decrypted,          \* what B's decryption returned
    tallies,            \* Voting: entity -> [upvotes, downvotes]
    userVotes,          \* Voting: entity -> voter -> "None" | "Up" | "Down"
    _following,         \* FollowRegistry: user -> the addresses the user follows
    _followingIndex,    \* FollowRegistry: user -> followee -> index + 1, 0 for none
    _followers,         \* FollowRegistry: followee -> the followers of the followee
    _followerIndex,     \* FollowRegistry: followee -> follower -> index + 1, 0 for none
    followedFrom,       \* for each recorded follow, the account whose call made it
    userRegistryAddress, \* App: the user registry's address once read from the chain, "" before
    selectedConversation, \* App of each client: the conversation shown, 0 for none
    viewMode,           \* App of each client: "channels" or "dms"
    startingDM          \* App of each client: where its handleStartDM stands

registryVars == <<profiles, profileLinks, delegateToOwner, isDelegate, sessionPublicKeys>>
dmVars == <<userConversations, conversationLookup, conversations, blockTimestamp>>
walletVars == <<userAddress, appWallet, isAuthorized, isLoading, error, storedWallet,
                generatedWallets, checksInFlight, authorizing, funding, currentMode,
                walletMode, standaloneWallet>>
keyVars == <<localSessionKey, hasLocalKey, sessionKeysGenerated, handlers>>
cryptoVars == <<privateKeyA, privateKeyB, plaintext, nonce, blob, decrypted>>
appVars == <<userRegistryAddress, selectedConversation, viewMode, startingDM>>
clientVars == <<walletVars, keyVars, cryptoVars, appVars>>
votingVars == <<tallies, userVotes>>
followVars == <<_following, _followingIndex, _followers, _followerIndex, followedFrom>>
socialVars == <<votingVars, followVars>>
vars == <<profiles, profileLinks, delegateToOwner, isDelegate, sessionPublicKeys,
          userConversations, conversationLookup, conversations, blockTimestamp, last,
          userAddress, appWallet, isAuthorized, isLoading, error, storedWallet,
          generatedWallets, checksInFlight, authorizing, funding, currentMode,
          walletMode, standaloneWallet,
          localSessionKey, hasLocalKey, sessionKeysGenerated, handlers,
          privateKeyA, privateKeyB, plaintext, nonce, blob, decrypted,
          tallies, userVotes,
          _following, _followingIndex, _followers, _followerIndex, followedFrom,
          userRegistryAddress, selectedConversation, viewMode, startingDM>>

(***************************************************************************)
(* Values                                                                  *)
(***************************************************************************)
ZeroAddress == 0

\* The accounts that send transactions.
Users == {1, 2, 3}

\* Every address a mapping is read or written at.
Address == {ZeroAddress} \cup Users

\* A string / bytes value of `len` bytes with content `id`.
Str(len, id) == [len |-> len, id |-> id]

EmptyString == Str(0, "")

ZeroProfile == [owner |-> ZeroAddress, displayName |-> EmptyString,
                bio |-> EmptyString, exists |-> FALSE]

Call(op, ret) == [op |-> op, ret |-> ret]

(***************************************************************************)
(* UserRegistry                                                            *)
(***************************************************************************)
onlyProfileOwner(sender) ==
    /\ profiles[sender].exists
    /\ profiles[sender].owner = sender

\* createProfile without the requirement that the caller has no profile.
createProfile_overwrites(sender, displayName, bio) ==
    /\ displayName.len > 0
    /\ displayName.len <= 50
    /\ bio.len <= 500
    /\ profiles' = [profiles EXCEPT ![sender] =
            [owner |-> sender, displayName |-> displayName, bio |-> bio, exists |-> TRUE]]
    /\ last' = Call("createProfile", 0)
    /\ UNCHANGED <<profileLinks, delegateToOwner, isDelegate, sessionPublicKeys>>
    /\ UNCHANGED dmVars

createProfile(sender, displayName, bio) ==
    /\ ~profiles[sender].exists
    /\ displayName.len > 0
    /\ displayName.len <= 50
    /\ bio.len <= 500
    /\ profiles' = [profiles EXCEPT ![sender] =
            [owner |-> sender, displayName |-> displayName, bio |-> bio, exists |-> TRUE]]
    /\ last' = Call("createProfile", 0)
    /\ UNCHANGED <<profileLinks, delegateToOwner, isDelegate, sessionPublicKeys>>
    /\ UNCHANGED dmVars

\* "0x" followed by the 8 lowest hex digits of the address (str[9] is the lowest,
\* str[2] the highest of them): 10 bytes.
_addressToShortString(addr) ==
    Str(10, <<"0x", [i \in 2 .. 9 |-> (addr \div (16 ^ (9 - i))) % 16]>>)

createDefaultProfile(sender) ==
    /\ ~profiles[sender].exists
    /\ profiles' = [profiles EXCEPT ![sender] =
            [owner |-> sender, displayName |-> _addressToShortString(sender),
             bio |-> EmptyString, exists |-> TRUE]]
    /\ last' = Call("createDefaultProfile", 0)
    /\ UNCHANGED <<profileLinks, delegateToOwner, isDelegate, sessionPublicKeys>>
    /\ UNCHANGED dmVars

\* setDisplayName without the requirement that the name is not empty.
setDisplayName_allowsEmpty(sender, displayName) ==
    /\ onlyProfileOwner(sender)
    /\ displayName.len <= 50
    /\ profiles' = [profiles EXCEPT ![sender].displayName = displayName]
    /\ last' = Call("setDisplayName", 0)
    /\ UNCHANGED <<profileLinks, delegateToOwner, isDelegate, sessionPublicKeys>>
    /\ UNCHANGED dmVars

setDisplayName(sender, displayName) ==
    /\ onlyProfileOwner(sender)
    /\ displayName.len > 0
    /\ displayName.len <= 50
    /\ profiles' = [profiles EXCEPT ![sender].displayName = displayName]
    /\ last' = Call("setDisplayName", 0)
    /\ UNCHANGED <<profileLinks, delegateToOwner, isDelegate, sessionPublicKeys>>
    /\ UNCHANGED dmVars

\* setBio that lets a registered delegate write the bio of its owner.
setBio_asOwner(sender, bio) ==
    LET owner == IF delegateToOwner[sender] # ZeroAddress
                 THEN delegateToOwner[sender] ELSE sender
    IN  /\ profiles[owner].exists
        /\ bio.len <= 500
        /\ profiles' = [profiles EXCEPT ![owner].bio = bio]
        /\ last' = Call("setBio", 0)
        /\ UNCHANGED <<profileLinks, delegateToOwner, isDelegate, sessionPublicKeys>>
        /\ UNCHANGED dmVars

setBio(sender, bio) ==
    /\ onlyProfileOwner(sender)
    /\ bio.len <= 500
    /\ profiles' = [profiles EXCEPT ![sender].bio = bio]
    /\ last' = Call("setBio", 0)
    /\ UNCHANGED <<profileLinks, delegateToOwner, isDelegate, sessionPublicKeys>>
    /\ UNCHANGED dmVars

\* addLink without the limit of 10 links.
addLink_unlimited(sender, name, url) ==
    /\ onlyProfileOwner(sender)
    /\ name.len > 0
    /\ name.len <= 50
    /\ url.len > 0
    /\ url.len <= 200
    /\ profileLinks' = [profileLinks EXCEPT ![sender] =
            Append(@, [name |-> name, url |-> url])]
    /\ last' = Call("addLink", 0)
    /\ UNCHANGED <<profiles, delegateToOwner, isDelegate, sessionPublicKeys>>
    /\ UNCHANGED dmVars

addLink(sender, name, url) ==
    /\ onlyProfileOwner(sender)
    /\ name.len > 0
    /\ name.len <= 50
    /\ url.len > 0
    /\ url.len <= 200
    /\ Len(profileLinks[sender]) < 10
    /\ profileLinks' = [profileLinks EXCEPT ![sender] =
            Append(@, [name |-> name, url |-> url])]
    /\ last' = Call("addLink", 0)
    /\ UNCHANGED <<profiles, delegateToOwner, isDelegate, sessionPublicKeys>>
    /\ UNCHANGED dmVars

\* removeLink that closes the gap by shifting the later links down.
removeLink_shifts(sender, index) ==
    /\ onlyProfileOwner(sender)
    /\ index < Len(profileLinks[sender])
    /\ LET links == profileLinks[sender]
       IN  profileLinks' = [profileLinks EXCEPT ![sender] =
                SubSeq(links, 1, index) \o SubSeq(links, index + 2, Len(links))]
    /\ last' = Call("removeLink", 0)
    /\ UNCHANGED <<profiles, delegateToOwner, isDelegate, sessionPublicKeys>>
    /\ UNCHANGED dmVars

\* index is 0-based, as in the contract; sequences here are 1-based.
removeLink(sender, index) ==
    /\ onlyProfileOwner(sender)
    /\ index < Len(profileLinks[sender])
    /\ LET links == profileLinks[sender]
           moved == [links EXCEPT ![index + 1] = links[Len(links)]]
       IN  profileLinks' = [profileLinks EXCEPT ![sender] =
                SubSeq(moved, 1, Len(moved) - 1)]
    /\ last' = Call("removeLink", 0)
    /\ UNCHANGED <<profiles, delegateToOwner, isDelegate, sessionPublicKeys>>
    /\ UNCHANGED dmVars

clearLinks(sender) ==
    /\ onlyProfileOwner(sender)
    /\ profileLinks' = [profileLinks EXCEPT ![sender] = <<>>]
    /\ last' = Call("clearLinks", 0)
    /\ UNCHANGED <<profiles, delegateToOwner, isDelegate, sessionPublicKeys>>
    /\ UNCHANGED dmVars

\* addDelegate without the requirement that the address is nobody's delegate yet.
addDelegate_anyOwner(sender, delegate) ==
    /\ onlyProfileOwner(sender)
    /\ delegate # ZeroAddress
    /\ delegate # sender
    /\ ~isDelegate[sender][delegate]
    /\ isDelegate' = [isDelegate EXCEPT ![sender][delegate] = TRUE]
    /\ delegateToOwner' = [delegateToOwner EXCEPT ![delegate] = sender]
    /\ last' = Call("addDelegate", 0)
    /\ UNCHANGED <<profiles, profileLinks, sessionPublicKeys>>
    /\ UNCHANGED dmVars

addDelegate(sender, delegate) ==
    /\ onlyProfileOwner(sender)
    /\ delegate # ZeroAddress
    /\ delegate # sender
    /\ ~isDelegate[sender][delegate]
    /\ delegateToOwner[delegate] = ZeroAddress
    /\ isDelegate' = [isDelegate EXCEPT ![sender][delegate] = TRUE]
    /\ delegateToOwner' = [delegateToOwner EXCEPT ![delegate] = sender]
    /\ last' = Call("addDelegate", 0)
    /\ UNCHANGED <<profiles, profileLinks, sessionPublicKeys>>
    /\ UNCHANGED dmVars

\* removeDelegate that clears the owner's flag and leaves the delegate's mapping.
removeDelegate_keepsMapping(sender, delegate) ==
    /\ onlyProfileOwner(sender)
    /\ isDelegate[sender][delegate]
    /\ isDelegate' = [isDelegate EXCEPT ![sender][delegate] = FALSE]
    /\ last' = Call("removeDelegate", 0)
    /\ UNCHANGED <<profiles, profileLinks, sessionPublicKeys, delegateToOwner>>
    /\ UNCHANGED dmVars

removeDelegate(sender, delegate) ==
    /\ onlyProfileOwner(sender)
    /\ isDelegate[sender][delegate]
    /\ isDelegate' = [isDelegate EXCEPT ![sender][delegate] = FALSE]
    /\ delegateToOwner' = [delegateToOwner EXCEPT ![delegate] = ZeroAddress]
    /\ last' = Call("removeDelegate", 0)
    /\ UNCHANGED <<profiles, profileLinks, sessionPublicKeys>>
    /\ UNCHANGED dmVars

\* setSessionPublicKey without the length requirement.
setSessionPublicKey_anyLength(sender, sessionPubKey) ==
    /\ onlyProfileOwner(sender)
    /\ sessionPublicKeys' = [sessionPublicKeys EXCEPT ![sender] = sessionPubKey]
    /\ last' = Call("setSessionPublicKey", 0)
    /\ UNCHANGED <<profiles, profileLinks, delegateToOwner, isDelegate>>
    /\ UNCHANGED dmVars

setSessionPublicKey(sender, sessionPubKey) ==
    /\ onlyProfileOwner(sender)
    /\ sessionPubKey.len = 64
    /\ sessionPublicKeys' = [sessionPublicKeys EXCEPT ![sender] = sessionPubKey]
    /\ last' = Call("setSessionPublicKey", 0)
    /\ UNCHANGED <<profiles, profileLinks, delegateToOwner, isDelegate>>
    /\ UNCHANGED dmVars

clearSessionPublicKey(sender) ==
    /\ onlyProfileOwner(sender)
    /\ sessionPublicKeys' = [sessionPublicKeys EXCEPT ![sender] = EmptyString]
    /\ last' = Call("clearSessionPublicKey", 0)
    /\ UNCHANGED <<profiles, profileLinks, delegateToOwner, isDelegate>>
    /\ UNCHANGED dmVars

getSessionPublicKey(owner) == sessionPublicKeys[owner]

hasSessionPublicKey(owner) == sessionPublicKeys[owner].len > 0

getLinks(owner) == profileLinks[owner]

getLinkCount(owner) == Len(profileLinks[owner])

\* transferProfileOwnership that leaves the old owner's session key in place.
transferProfileOwnership_keepsKey(sender, newOwner) ==
    /\ onlyProfileOwner(sender)
    /\ newOwner # ZeroAddress
    /\ ~profiles[newOwner].exists
    /\ delegateToOwner[newOwner] = ZeroAddress
    /\ LET copied == [profiles EXCEPT ![newOwner] =
                [owner |-> newOwner, displayName |-> profiles[sender].displayName,
                 bio |-> profiles[sender].bio, exists |-> TRUE]]
       IN  profiles' = [copied EXCEPT ![sender] = ZeroProfile]
    /\ LET pushed == [profileLinks EXCEPT ![newOwner] = @ \o profileLinks[sender]]
       IN  profileLinks' = [pushed EXCEPT ![sender] = <<>>]
    /\ sessionPublicKeys' = IF sessionPublicKeys[sender].len > 0
                            THEN [sessionPublicKeys EXCEPT ![newOwner] = sessionPublicKeys[sender]]
                            ELSE sessionPublicKeys
    /\ last' = Call("transferProfileOwnership", 0)
    /\ UNCHANGED <<delegateToOwner, isDelegate>>
    /\ UNCHANGED dmVars

\* transferProfileOwnership without the requirement that newOwner is nobody's delegate.
transferProfileOwnership_toDelegate(sender, newOwner) ==
    /\ onlyProfileOwner(sender)
    /\ newOwner # ZeroAddress
    /\ ~profiles[newOwner].exists
    /\ LET copied == [profiles EXCEPT ![newOwner] =
                [owner |-> newOwner, displayName |-> profiles[sender].displayName,
                 bio |-> profiles[sender].bio, exists |-> TRUE]]
       IN  profiles' = [copied EXCEPT ![sender] = ZeroProfile]
    /\ LET pushed == [profileLinks EXCEPT ![newOwner] = @ \o profileLinks[sender]]
       IN  profileLinks' = [pushed EXCEPT ![sender] = <<>>]
    /\ LET copied == IF sessionPublicKeys[sender].len > 0
                     THEN [sessionPublicKeys EXCEPT ![newOwner] = sessionPublicKeys[sender]]
                     ELSE sessionPublicKeys
       IN  sessionPublicKeys' = [copied EXCEPT ![sender] = EmptyString]
    /\ last' = Call("transferProfileOwnership", 0)
    /\ UNCHANGED <<delegateToOwner, isDelegate>>
    /\ UNCHANGED dmVars

transferProfileOwnership(sender, newOwner) ==
    /\ onlyProfileOwner(sender)
    /\ newOwner # ZeroAddress
    /\ ~profiles[newOwner].exists
    /\ delegateToOwner[newOwner] = ZeroAddress
    /\ LET copied == [profiles EXCEPT ![newOwner] =
                [owner |-> newOwner, displayName |-> profiles[sender].displayName,
                 bio |-> profiles[sender].bio, exists |-> TRUE]]
       IN  profiles' = [copied EXCEPT ![sender] = ZeroProfile]
    /\ LET pushed == [profileLinks EXCEPT ![newOwner] = @ \o profileLinks[sender]]
       IN  profileLinks' = [pushed EXCEPT ![sender] = <<>>]
    /\ LET copied == IF sessionPublicKeys[sender].len > 0
                     THEN [sessionPublicKeys EXCEPT ![newOwner] = sessionPublicKeys[sender]]
                     ELSE sessionPublicKeys
       IN  sessionPublicKeys' = [copied EXCEPT ![sender] = EmptyString]
    /\ last' = Call("transferProfileOwnership", 0)
    /\ UNCHANGED <<delegateToOwner, isDelegate>>
    /\ UNCHANGED dmVars

resolveToOwner(addr) ==
    IF delegateToOwner[addr] # ZeroAddress THEN delegateToOwner[addr]
    ELSE IF profiles[addr].exists THEN addr
    ELSE ZeroAddress

canActAs(actor, profileOwner) ==
    IF actor = profileOwner THEN TRUE ELSE isDelegate[profileOwner][actor]

getProfile(owner) == profiles[owner]

hasProfile(addr) == profiles[addr].exists

(***************************************************************************)
(* DMRegistry and DMConversation                                           *)
(***************************************************************************)
\* The pair hashed in the order given, without sorting.
_getPairHash_unsorted(a, b) == <<a, b>>

\* keccak256(abi.encodePacked(lo, hi)) of the sorted pair.
_getPairHash(a, b) == IF a < b THEN <<a, b>> ELSE <<b, a>>

\* The address of the n-th DMConversation contract the registry deploys.
conversationAddressOf(n) == 100 + n

\* The deployed contract at a conversation address.
conversationAt(conversationAddress) == conversations[conversationAddress - 100]

ConversationAddresses == {conversationAddressOf(n) : n \in 1 .. Len(conversations)}

\* The constructor of DMConversation (the registry address is never zero).
DMConversation(_participant1, _participant2) ==
    /\ _participant1 # ZeroAddress
    /\ _participant2 # ZeroAddress
    /\ _participant1 # _participant2

\* createConversation that indexes the conversation under the caller only.
createConversation_callerOnly(sender, otherUser) ==
    /\ otherUser # ZeroAddress
    /\ otherUser # sender
    /\ conversationLookup[_getPairHash(sender, otherUser)] = ZeroAddress
    /\ DMConversation(sender, otherUser)
    /\ LET conversationAddress == conversationAddressOf(Len(conversations) + 1)
       IN  /\ conversations' = Append(conversations,
                    [participant1 |-> sender, participant2 |-> otherUser, messages |-> <<>>])
           /\ conversationLookup' = [conversationLookup EXCEPT
                    ![_getPairHash(sender, otherUser)] = conversationAddress]
           /\ userConversations' = [userConversations EXCEPT
                    ![sender] = Append(@, conversationAddress)]
           /\ last' = Call("createConversation", conversationAddress)
    /\ UNCHANGED registryVars
    /\ UNCHANGED blockTimestamp

createConversation(sender, otherUser) ==
    /\ otherUser # ZeroAddress
    /\ otherUser # sender
    /\ conversationLookup[_getPairHash(sender, otherUser)] = ZeroAddress
    /\ DMConversation(sender, otherUser)
    /\ LET conversationAddress == conversationAddressOf(Len(conversations) + 1)
           pushed == [userConversations EXCEPT ![sender] = Append(@, conversationAddress)]
       IN  /\ conversations' = Append(conversations,
                    [participant1 |-> sender, participant2 |-> otherUser, messages |-> <<>>])
           /\ conversationLookup' = [conversationLookup EXCEPT
                    ![_getPairHash(sender, otherUser)] = conversationAddress]
           /\ userConversations' = [pushed EXCEPT ![otherUser] = Append(@, conversationAddress)]
           /\ last' = Call("createConversation", conversationAddress)
    /\ UNCHANGED registryVars
    /\ UNCHANGED blockTimestamp

getConversations(user) == userConversations[user]

getConversationCount(user) == Len(userConversations[user])

getConversation(user1, user2) == conversationLookup[_getPairHash(user1, user2)]

conversationExists(user1, user2) ==
    conversationLookup[_getPairHash(user1, user2)] # ZeroAddress

\* No resolution: every sender stands for itself.
_resolveSender_literal(sender) == sender

_resolveSender(sender) ==
    IF delegateToOwner[sender] # ZeroAddress THEN delegateToOwner[sender] ELSE sender

\* Admits a participant address also while it is registered as somebody's delegate.
onlyParticipants_orLiteral(c, sender) ==
    \/ _resolveSender(sender) = conversationAt(c).participant1
    \/ _resolveSender(sender) = conversationAt(c).participant2
    \/ sender = conversationAt(c).participant1
    \/ sender = conversationAt(c).participant2

onlyParticipants(c, sender) ==
    \/ _resolveSender(sender) = conversationAt(c).participant1
    \/ _resolveSender(sender) = conversationAt(c).participant2

\* postMessage that takes the index after the push.
postMessage_indexAfterPush(sender, c, encryptedContent) ==
    /\ onlyParticipants(c, sender)
    /\ encryptedContent.len > 0
    /\ encryptedContent.len <= 2000
    /\ LET senderOwner == _resolveSender(sender)
       IN  /\ conversations' = [conversations EXCEPT ![c - 100].messages = Append(@,
                    [senderOwner |-> senderOwner, senderAddress |-> sender,
                     encryptedContent |-> encryptedContent, timestamp |-> blockTimestamp])]
           /\ last' = Call("postMessage", Len(conversationAt(c).messages) + 1)
    /\ UNCHANGED <<userConversations, conversationLookup, blockTimestamp>>
    /\ UNCHANGED registryVars

\* postMessage that puts the new message in front of the stored ones.
postMessage_prepends(sender, c, encryptedContent) ==
    /\ onlyParticipants(c, sender)
    /\ encryptedContent.len > 0
    /\ encryptedContent.len <= 2000
    /\ LET senderOwner == _resolveSender(sender)
           index == Len(conversationAt(c).messages)
       IN  /\ conversations' = [conversations EXCEPT ![c - 100].messages =
                    <<[senderOwner |-> senderOwner, senderAddress |-> sender,
                       encryptedContent |-> encryptedContent,
                       timestamp |-> blockTimestamp]>> \o @]
           /\ last' = Call("postMessage", index)
    /\ UNCHANGED <<userConversations, conversationLookup, blockTimestamp>>
    /\ UNCHANGED registryVars

\* postMessage whose length limit excludes the limit itself.
postMessage_below2000(sender, c, encryptedContent) ==
    /\ onlyParticipants(c, sender)
    /\ encryptedContent.len > 0
    /\ encryptedContent.len < 2000
    /\ LET senderOwner == _resolveSender(sender)
           index == Len(conversationAt(c).messages)
       IN  /\ conversations' = [conversations EXCEPT ![c - 100].messages = Append(@,
                    [senderOwner |-> senderOwner, senderAddress |-> sender,
                     encryptedContent |-> encryptedContent, timestamp |-> blockTimestamp])]
           /\ last' = Call("postMessage", index)
    /\ UNCHANGED <<userConversations, conversationLookup, blockTimestamp>>
    /\ UNCHANGED registryVars

\* postMessage sent to the conversation contract at address c; returns the index.
postMessage(sender, c, encryptedContent) ==
    /\ onlyParticipants(c, sender)
    /\ encryptedContent.len > 0
    /\ encryptedContent.len <= 2000
    /\ LET senderOwner == _resolveSender(sender)
           index == Len(conversationAt(c).messages)
       IN  /\ conversations' = [conversations EXCEPT ![c - 100].messages = Append(@,
                    [senderOwner |-> senderOwner, senderAddress |-> sender,
                     encryptedContent |-> encryptedContent, timestamp |-> blockTimestamp])]
           /\ last' = Call("postMessage", index)
    /\ UNCHANGED <<userConversations, conversationLookup, blockTimestamp>>
    /\ UNCHANGED registryVars

getMessageCount(c) == Len(conversationAt(c).messages)

\* index is 0-based; defined only when index < getMessageCount(c).
getMessage(c, index) == conversationAt(c).messages[index + 1]

\* type(uint256).max.  The checker's integers are narrower than the EVM word, so the
\* word is scaled to the widest they hold; the contracts only add and compare.
UintMax == 2147483647

\* a + b in checked arithmetic: the call reverts (Panic 0x11) when the sum does not
\* fit the word.
addOverflows(a, b) == a > UintMax - b

\* getMessages sent to the conversation contract at c; returns the array `result`.
getMessages(c, startIndex, count) ==
    LET totalMessages == Len(conversationAt(c).messages)
    IN  /\ IF startIndex >= totalMessages
           THEN last' = Call("getMessages", <<>>)
           ELSE /\ ~addOverflows(startIndex, count)
                /\ LET endIndex == IF startIndex + count > totalMessages
                                   THEN totalMessages ELSE startIndex + count
                       resultCount == endIndex - startIndex
                   IN  last' = Call("getMessages",
                            [i \in 1 .. resultCount |->
                                conversationAt(c).messages[startIndex + i]])
        /\ UNCHANGED dmVars
        /\ UNCHANGED registryVars

\* getLatestMessages that reads from the start of the ledger.
getLatestMessages_fromStart(c, count) ==
    LET totalMessages == Len(conversationAt(c).messages)
        clamped == IF count > totalMessages THEN totalMessages ELSE count
    IN  /\ last' = Call("getLatestMessages",
                [i \in 1 .. clamped |-> conversationAt(c).messages[i]])
        /\ UNCHANGED dmVars
        /\ UNCHANGED registryVars

getLatestMessages(c, count) ==
    LET totalMessages == Len(conversationAt(c).messages)
        clamped == IF count > totalMessages THEN totalMessages ELSE count
        startIndex == totalMessages - clamped
    IN  /\ last' = Call("getLatestMessages",
                IF clamped = 0 THEN <<>>
                ELSE [i \in 1 .. clamped |-> conversationAt(c).messages[startIndex + i]])
        /\ UNCHANGED dmVars
        /\ UNCHANGED registryVars

\* isParticipant that compares the address itself, without resolving it.
isParticipant_literal(c, addr) ==
    \/ addr = conversationAt(c).participant1
    \/ addr = conversationAt(c).participant2

isParticipant(c, addr) ==
    \/ _resolveSender(addr) = conversationAt(c).participant1
    \/ _resolveSender(addr) = conversationAt(c).participant2

\* A later block: block.timestamp never decreases.
mineBlock ==
    /\ blockTimestamp' = blockTimestamp + 1
    /\ last' = Call("mineBlock", 0)
    /\ UNCHANGED <<userConversations, conversationLookup, conversations>>
    /\ UNCHANGED registryVars

(***************************************************************************)
(* Voting.  vote and removeVote read and write the entries of the entity   *)
(* they are given and no other, so one entity stands for each.             *)
(***************************************************************************)
Entities == {"thread"}

VoteTypes == {"None", "Up", "Down"}

_resolveVoter(sender) ==
    IF delegateToOwner[sender] # ZeroAddress THEN delegateToOwner[sender] ELSE sender

\* A _removeVote that takes the vote off neither counter.
_removeVote_keepsCount(tally, voteType) == tally

\* The tally after _removeVote; the decrement is checked.
_removeVote(tally, voteType) ==
    IF voteType = "Up" THEN [tally EXCEPT !.upvotes = @ - 1]
    ELSE IF voteType = "Down" THEN [tally EXCEPT !.downvotes = @ - 1]
    ELSE tally

vote(sender, entityId, voteType) ==
    LET voter == _resolveVoter(sender)
        existingVote == userVotes[entityId][voter]
        removed == IF existingVote # "None"
                   THEN _removeVote(tallies[entityId], existingVote)
                   ELSE tallies[entityId]
    IN  /\ voteType # "None"
        /\ hasProfile(voter)
        /\ removed.upvotes >= 0
        /\ removed.downvotes >= 0
        /\ tallies' = [tallies EXCEPT ![entityId] =
                IF voteType = "Up" THEN [removed EXCEPT !.upvotes = @ + 1]
                ELSE [removed EXCEPT !.downvotes = @ + 1]]
        /\ userVotes' = [userVotes EXCEPT ![entityId][voter] = voteType]
        /\ last' = Call("vote", 0)
        /\ UNCHANGED <<registryVars, dmVars>>

removeVote(sender, entityId) ==
    LET voter == _resolveVoter(sender)
        existingVote == userVotes[entityId][voter]
        removed == _removeVote(tallies[entityId], existingVote)
    IN  /\ existingVote # "None"
        /\ removed.upvotes >= 0
        /\ removed.downvotes >= 0
        /\ tallies' = [tallies EXCEPT ![entityId] = removed]
        /\ userVotes' = [userVotes EXCEPT ![entityId][voter] = "None"]
        /\ last' = Call("removeVote", 0)
        /\ UNCHANGED <<registryVars, dmVars>>

getTally(entityId) == tallies[entityId]

getUserVote(entityId, user) ==
    userVotes[entityId][IF delegateToOwner[user] # ZeroAddress
                        THEN delegateToOwner[user] ELSE user]

(***************************************************************************)
(* FollowRegistry over the UserRegistry.  A follow is recorded under the   *)
(* identity the caller resolves to at the time of the call.  followedFrom  *)
(* remembers the caller of each recorded follow; the contract does not.    *)
(***************************************************************************)
_resolveFollower(sender) ==
    IF resolveToOwner(sender) = ZeroAddress THEN sender ELSE resolveToOwner(sender)

\* A follow that does not enter the follower in the followee's list.
follow_oneSided(sender, user) ==
    LET follower == _resolveFollower(sender)
    IN  /\ user # ZeroAddress
        /\ user # follower
        /\ _followingIndex[follower][user] = 0
        /\ _following' = [_following EXCEPT ![follower] = Append(@, user)]
        /\ _followingIndex' = [_followingIndex EXCEPT
                ![follower][user] = Len(_following[follower]) + 1]
        /\ followedFrom' = [followedFrom EXCEPT ![follower][user] = sender]
        /\ last' = Call("follow", 0)
        /\ UNCHANGED <<_followers, _followerIndex, registryVars, dmVars>>

follow(sender, user) ==
    LET follower == _resolveFollower(sender)
    IN  /\ user # ZeroAddress
        /\ user # follower
        /\ _followingIndex[follower][user] = 0
        /\ _following' = [_following EXCEPT ![follower] = Append(@, user)]
        /\ _followingIndex' = [_followingIndex EXCEPT
                ![follower][user] = Len(_following[follower]) + 1]
        /\ _followers' = [_followers EXCEPT ![user] = Append(@, follower)]
        /\ _followerIndex' = [_followerIndex EXCEPT
                ![user][follower] = Len(_followers[user]) + 1]
        /\ followedFrom' = [followedFrom EXCEPT ![follower][user] = sender]
        /\ last' = Call("follow", 0)
        /\ UNCHANGED <<registryVars, dmVars>>

\* Swap and pop: the list without the entry at the 0-based index idx, the last entry
\* taking its place.
swapAndPop(list, idx) ==
    LET lastIdx == Len(list) - 1
        popped == SubSeq(list, 1, lastIdx)
    IN  IF idx # lastIdx THEN [popped EXCEPT ![idx + 1] = list[lastIdx + 1]] ELSE popped

\* The index map of one list after swap and pop of the entry `removed` at index idx.
indexAfterSwapAndPop(index, list, idx, removed) ==
    LET lastIdx == Len(list) - 1
        moved == IF idx # lastIdx
                 THEN [index EXCEPT ![list[lastIdx + 1]] = idx + 1]
                 ELSE index
    IN  [moved EXCEPT ![removed] = 0]

\* An unfollow that leaves the index of the entry it moved as it was.
unfollow_staleIndex(sender, user) ==
    LET follower == _resolveFollower(sender)
        followingIdx == _followingIndex[follower][user] - 1
        followerIdx == _followerIndex[user][follower] - 1
    IN  /\ _followingIndex[follower][user] # 0
        /\ Len(_following[follower]) >= 1
        /\ followingIdx <= Len(_following[follower]) - 1
        /\ _followerIndex[user][follower] >= 1
        /\ Len(_followers[user]) >= 1
        /\ followerIdx <= Len(_followers[user]) - 1
        /\ _following' = [_following EXCEPT ![follower] = swapAndPop(@, followingIdx)]
        /\ _followingIndex' = [_followingIndex EXCEPT ![follower][user] = 0]
        /\ _followers' = [_followers EXCEPT ![user] = swapAndPop(@, followerIdx)]
        /\ _followerIndex' = [_followerIndex EXCEPT ![user][follower] = 0]
        /\ followedFrom' = [followedFrom EXCEPT ![follower][user] = ZeroAddress]
        /\ last' = Call("unfollow", 0)
        /\ UNCHANGED <<registryVars, dmVars>>

\* The subtractions and the array reads are checked: each is a guard.
unfollow(sender, user) ==
    LET follower == _resolveFollower(sender)
        followingIdx == _followingIndex[follower][user] - 1
        followerIdx == _followerIndex[user][follower] - 1
    IN  /\ _followingIndex[follower][user] # 0
        /\ Len(_following[follower]) >= 1
        /\ followingIdx <= Len(_following[follower]) - 1
        /\ _followerIndex[user][follower] >= 1
        /\ Len(_followers[user]) >= 1
        /\ followerIdx <= Len(_followers[user]) - 1
        /\ _following' = [_following EXCEPT ![follower] = swapAndPop(@, followingIdx)]
        /\ _followingIndex' = [_followingIndex EXCEPT ![follower] =
                indexAfterSwapAndPop(@, _following[follower], followingIdx, user)]
        /\ _followers' = [_followers EXCEPT ![user] = swapAndPop(@, followerIdx)]
        /\ _followerIndex' = [_followerIndex EXCEPT ![user] =
                indexAfterSwapAndPop(@, _followers[user], followerIdx, follower)]
        /\ followedFrom' = [followedFrom EXCEPT ![follower][user] = ZeroAddress]
        /\ last' = Call("unfollow", 0)
        /\ UNCHANGED <<registryVars, dmVars>>

getFollowing(user) == _following[user]

getFollowers(user) == _followers[user]

isFollowing(follower, followee) == _followingIndex[follower][followee] # 0

getFollowingCount(user) == Len(_following[user])

getFollowerCount(user) == Len(_followers[user])

(***************************************************************************)
(* useAppWallet in browser-wallet mode: the delegate wallet of the         *)
(* connected account.  An awaited call is two steps, its start and its     *)
(* continuation; a continuation sees the values its closure captured at    *)
(* the start.  An effect runs in the step that changes its dependencies.   *)
(***************************************************************************)
NoWallet == [wallet |-> ZeroAddress, authorizedFor |-> ZeroAddress]

\* The addresses of the delegate keys the client generates, in order of generation.
WalletAddresses == {2, 3}

walletAddressOf(n) == 1 + n

getStoredWalletInfo == storedWallet

isWalletAuthorizedFor(user) ==
    storedWallet.wallet # ZeroAddress /\ storedWallet.authorizedFor = user

\* The isDelegate of useUserRegistry reads through a contract only once the registry
\* address is known; without one it answers false.
getReadContract == userRegistryAddress # ""

\* initializeWallet for the account `user`, followed by the effect on appWallet, which
\* starts checkAuthorization for the wallet it finds, with the checkDelegateOnChain
\* of that render.
initializeWalletFor(user) ==
    /\ IF isWalletAuthorizedFor(user)
       THEN /\ appWallet' = getStoredWalletInfo.wallet
            /\ UNCHANGED generatedWallets
       ELSE /\ appWallet' = walletAddressOf(generatedWallets + 1)
            /\ generatedWallets' = generatedWallets + 1
    /\ checksInFlight' = checksInFlight \cup
            {[wallet |-> appWallet', user |-> user, contract |-> getReadContract]}
    /\ UNCHANGED storedWallet

\* The browser wallet connects the account `user`: the mount effect initializes.
connectAccount(user) ==
    /\ walletMode = "browser"
    /\ userAddress = ZeroAddress
    /\ userAddress' = user
    /\ initializeWalletFor(user)
    /\ UNCHANGED <<isAuthorized, isLoading, error, authorizing>>
    /\ UNCHANGED <<registryVars, dmVars, last>>
    /\ UNCHANGED <<funding, currentMode, walletMode, standaloneWallet>>
    /\ UNCHANGED <<appVars, keyVars, cryptoVars, socialVars>>

\* The browser wallet drops its account: the mount effect clears the hook.
disconnectAccount ==
    /\ userAddress # ZeroAddress
    /\ userAddress' = ZeroAddress
    /\ appWallet' = ZeroAddress
    /\ isAuthorized' = FALSE
    /\ UNCHANGED <<isLoading, error, storedWallet, generatedWallets, checksInFlight,
                   authorizing>>
    /\ UNCHANGED <<registryVars, dmVars, last>>
    /\ UNCHANGED <<funding, currentMode, walletMode, standaloneWallet>>
    /\ UNCHANGED <<appVars, keyVars, cryptoVars, socialVars>>

\* checkAuthorization after its await: the chain answered.
checkAuthorization(check) ==
    /\ check \in checksInFlight
    /\ checksInFlight' = checksInFlight \ {check}
    /\ isAuthorized' = (check.contract /\ isDelegate[check.user][check.wallet])
    /\ UNCHANGED <<userAddress, appWallet, isLoading, error, storedWallet,
                   generatedWallets, authorizing>>
    /\ UNCHANGED <<registryVars, dmVars, last>>
    /\ UNCHANGED <<funding, currentMode, walletMode, standaloneWallet>>
    /\ UNCHANGED <<appVars, keyVars, cryptoVars, socialVars>>

\* checkAuthorization after its await: the read threw.
checkAuthorization_catch(check) ==
    /\ check \in checksInFlight
    /\ checksInFlight' = checksInFlight \ {check}
    /\ isAuthorized' = FALSE
    /\ UNCHANGED <<userAddress, appWallet, isLoading, error, storedWallet,
                   generatedWallets, authorizing>>
    /\ UNCHANGED <<registryVars, dmVars, last>>
    /\ UNCHANGED <<funding, currentMode, walletMode, standaloneWallet>>
    /\ UNCHANGED <<appVars, keyVars, cryptoVars, socialVars>>

\* The read of the user registry's address from the channel registry answers: the
\* isDelegate of useUserRegistry is made anew with a contract, and App's effect hands
\* it to the hook as checkDelegateOnChain.  The hook's effect that calls
\* checkAuthorization depends on appWallet and provider only, and does not run.
getUserRegistryAddress_then ==
    /\ userRegistryAddress = ""
    /\ userRegistryAddress' = "0xUserRegistry"
    /\ UNCHANGED <<selectedConversation, viewMode, startingDM>>
    /\ UNCHANGED <<registryVars, dmVars, last>>
    /\ UNCHANGED <<walletVars, keyVars, cryptoVars, socialVars>>

\* The page is loaded again in browser-wallet mode: every useState starts over, the
\* pending continuations are gone with the old page, localStorage stays.  The
\* browser wallet connects the account again in a later step.
reload ==
    /\ walletMode = "browser"
    /\ authorizing = {}
    /\ funding = 0
    /\ userAddress' = ZeroAddress
    /\ appWallet' = ZeroAddress
    /\ isAuthorized' = FALSE
    /\ isLoading' = FALSE
    /\ error' = FALSE
    /\ checksInFlight' = {}
    /\ currentMode' = walletMode
    /\ userRegistryAddress' = ""
    /\ UNCHANGED <<storedWallet, generatedWallets, authorizing, funding, walletMode,
                   standaloneWallet>>
    /\ UNCHANGED <<selectedConversation, viewMode, startingDM>>
    /\ UNCHANGED <<registryVars, dmVars, last>>
    /\ UNCHANGED <<keyVars, cryptoVars, socialVars>>

\* authorizeDelegate up to its await: addDelegateFn is sent for the current wallet.
authorizeDelegate ==
    /\ appWallet # ZeroAddress
    /\ userAddress # ZeroAddress
    /\ isLoading' = TRUE
    /\ error' = FALSE
    /\ authorizing' = authorizing \cup {[wallet |-> appWallet, user |-> userAddress]}
    /\ UNCHANGED <<userAddress, appWallet, isAuthorized, storedWallet, generatedWallets,
                   checksInFlight>>
    /\ UNCHANGED <<registryVars, dmVars, last>>
    /\ UNCHANGED <<funding, currentMode, walletMode, standaloneWallet>>
    /\ UNCHANGED <<appVars, keyVars, cryptoVars, socialVars>>

\* authorizeDelegate after its await: the owner's addDelegate transaction is confirmed.
authorizeDelegate_confirmed(call) ==
    /\ call \in authorizing
    /\ addDelegate(call.user, call.wallet)
    /\ storedWallet' = [wallet |-> call.wallet, authorizedFor |-> call.user]
    /\ isAuthorized' = TRUE
    /\ isLoading' = FALSE
    /\ authorizing' = authorizing \ {call}
    /\ UNCHANGED <<userAddress, appWallet, error, generatedWallets, checksInFlight>>
    /\ UNCHANGED <<funding, currentMode, walletMode, standaloneWallet>>
    /\ UNCHANGED <<appVars, keyVars, cryptoVars, socialVars>>

\* authorizeDelegate after its await: the transaction was rejected or reverted.
authorizeDelegate_catch(call) ==
    /\ call \in authorizing
    /\ error' = TRUE
    /\ isLoading' = FALSE
    /\ authorizing' = authorizing \ {call}
    /\ UNCHANGED <<userAddress, appWallet, isAuthorized, storedWallet, generatedWallets,
                   checksInFlight>>
    /\ UNCHANGED <<registryVars, dmVars, last>>
    /\ UNCHANGED <<funding, currentMode, walletMode, standaloneWallet>>
    /\ UNCHANGED <<appVars, keyVars, cryptoVars, socialVars>>

\* fundWallet up to its first await: the transfer to the wallet is sent.
fundWallet ==
    /\ appWallet # ZeroAddress
    /\ isLoading' = TRUE
    /\ error' = FALSE
    /\ funding' = funding + 1
    /\ UNCHANGED <<userAddress, appWallet, isAuthorized, storedWallet, generatedWallets,
                   checksInFlight, authorizing, currentMode, walletMode, standaloneWallet>>
    /\ UNCHANGED <<registryVars, dmVars, last>>
    /\ UNCHANGED <<appVars, keyVars, cryptoVars, socialVars>>

\* fundWallet after its awaits: the transfer is confirmed and the balance re-read.
fundWallet_confirmed ==
    /\ funding > 0
    /\ funding' = funding - 1
    /\ isLoading' = FALSE
    /\ UNCHANGED <<userAddress, appWallet, isAuthorized, error, storedWallet,
                   generatedWallets, checksInFlight, authorizing, currentMode, walletMode,
                   standaloneWallet>>
    /\ UNCHANGED <<registryVars, dmVars, last>>
    /\ UNCHANGED <<appVars, keyVars, cryptoVars, socialVars>>

\* fundWallet after its awaits: the signer, the transfer or its receipt threw.
fundWallet_catch ==
    /\ funding > 0
    /\ funding' = funding - 1
    /\ error' = TRUE
    /\ isLoading' = FALSE
    /\ UNCHANGED <<userAddress, appWallet, isAuthorized, storedWallet, generatedWallets,
                   checksInFlight, authorizing, currentMode, walletMode, standaloneWallet>>
    /\ UNCHANGED <<registryVars, dmVars, last>>
    /\ UNCHANGED <<appVars, keyVars, cryptoVars, socialVars>>

\* clearStandaloneWallet: the stored in-app key is removed.
clearStandaloneWallet == standaloneWallet' = ZeroAddress

\* clearAppWallet: the stored delegate key is removed.
clearAppWallet == storedWallet' = NoWallet

\* disconnect: the stored key of the hook's mode is cleared and the hook reset.
disconnect ==
    /\ IF currentMode = "standalone"
       THEN clearStandaloneWallet /\ UNCHANGED storedWallet
       ELSE clearAppWallet /\ UNCHANGED standaloneWallet
    /\ appWallet' = ZeroAddress
    /\ isAuthorized' = FALSE
    /\ error' = FALSE

\* getOrCreateStandaloneWallet: the stored in-app wallet, or a new one that is stored.
getOrCreateStandaloneWallet ==
    IF standaloneWallet # ZeroAddress THEN standaloneWallet
    ELSE walletAddressOf(generatedWallets + 1)

initializeStandaloneWallet ==
    /\ appWallet' = getOrCreateStandaloneWallet
    /\ standaloneWallet' = getOrCreateStandaloneWallet
    /\ generatedWallets' = IF standaloneWallet # ZeroAddress THEN generatedWallets
                           ELSE generatedWallets + 1
    /\ currentMode' = "standalone"
    /\ isAuthorized' = TRUE

\* The user picks the in-app wallet in the wallet choice.
handleSelectInAppWallet ==
    /\ walletMode = "none"
    /\ initializeStandaloneWallet
    /\ UNCHANGED <<userAddress, isLoading, error, storedWallet, checksInFlight,
                   authorizing, funding, walletMode>>
    /\ UNCHANGED <<registryVars, dmVars, last>>
    /\ UNCHANGED <<appVars, keyVars, cryptoVars, socialVars>>

\* The user leaves the in-app set-up: the app enters standalone mode.  The hook's
\* provider changes with the mode, so its effect calls checkAuthorization, which
\* without a browser account clears isAuthorized.
handleInAppSetupContinue ==
    /\ walletMode = "none"
    /\ currentMode = "standalone"
    /\ appWallet # ZeroAddress
    /\ walletMode' = "standalone"
    /\ isAuthorized' = FALSE
    /\ UNCHANGED <<userAddress, appWallet, isLoading, error, storedWallet,
                   generatedWallets, checksInFlight, authorizing, funding, currentMode,
                   standaloneWallet>>
    /\ UNCHANGED <<registryVars, dmVars, last>>
    /\ UNCHANGED <<appVars, keyVars, cryptoVars, socialVars>>

\* The user picks the browser wallet in the wallet choice; the account connects in a
\* later step.
handleSelectBrowserWallet ==
    /\ walletMode = "none"
    /\ walletMode' = "browser"
    /\ currentMode' = "browser"
    /\ UNCHANGED <<userAddress, appWallet, isAuthorized, isLoading, error, storedWallet,
                   generatedWallets, checksInFlight, authorizing, funding,
                   standaloneWallet>>
    /\ UNCHANGED <<registryVars, dmVars, last>>
    /\ UNCHANGED <<appVars, keyVars, cryptoVars, socialVars>>

\* Disconnect in the account modal: the hook disconnects, the app leaves its mode,
\* and the hook follows the mode it is given.
onDisconnect ==
    /\ walletMode # "none"
    /\ disconnect
    /\ walletMode' = "none"
    /\ currentMode' = "none"
    /\ userAddress' = ZeroAddress
    /\ UNCHANGED <<isLoading, generatedWallets, checksInFlight, authorizing, funding>>
    /\ UNCHANGED <<registryVars, dmVars, last>>
    /\ UNCHANGED <<appVars, keyVars, cryptoVars, socialVars>>

(***************************************************************************)
(* handleStartDM in the App of each client.  The client signs with its own *)
(* account.  An awaited call is a step of its own: the read of an existing *)
(* conversation, then the createConversation transaction.                  *)
(***************************************************************************)
\* handleStartDM up to its first await: getConversation is sent.
handleStartDM(c, otherUserAddress) ==
    /\ startingDM[c].at \in {"idle", "done", "failed"}
    /\ startingDM' = [startingDM EXCEPT
            ![c] = [at |-> "getConversation", other |-> otherUserAddress]]
    /\ UNCHANGED <<userRegistryAddress, selectedConversation, viewMode>>
    /\ UNCHANGED <<registryVars, dmVars, last>>
    /\ UNCHANGED <<walletVars, keyVars, cryptoVars, socialVars>>

\* getConversation answered: an existing conversation is selected, otherwise
\* createConversation is sent.
handleStartDM_existingConv(c) ==
    LET existingConv == getConversation(c, startingDM[c].other)
    IN  /\ startingDM[c].at = "getConversation"
        /\ IF existingConv # ZeroAddress
           THEN /\ selectedConversation' = [selectedConversation EXCEPT ![c] = existingConv]
                /\ viewMode' = [viewMode EXCEPT ![c] = "dms"]
                /\ startingDM' = [startingDM EXCEPT ![c].at = "done"]
           ELSE /\ startingDM' = [startingDM EXCEPT ![c].at = "createConversation"]
                /\ UNCHANGED <<selectedConversation, viewMode>>
        /\ UNCHANGED userRegistryAddress
        /\ UNCHANGED <<registryVars, dmVars, last>>
        /\ UNCHANGED <<walletVars, keyVars, cryptoVars, socialVars>>

\* The createConversation of useDMRegistry rejects when the transaction reverts.
createConversation_rejects(sender, otherUser) ==
    \/ otherUser = ZeroAddress
    \/ otherUser = sender
    \/ conversationLookup[_getPairHash(sender, otherUser)] # ZeroAddress

\* createConversation was refused: the inner catch shows the error and rethrows, the
\* outer catch logs it.  Nothing is selected and the view stays.
handleStartDM_catch(c) ==
    /\ startingDM[c].at = "createConversation"
    /\ createConversation_rejects(c, startingDM[c].other)
    /\ startingDM' = [startingDM EXCEPT ![c].at = "failed"]
    /\ UNCHANGED <<userRegistryAddress, selectedConversation, viewMode>>
    /\ UNCHANGED <<registryVars, dmVars, last>>
    /\ UNCHANGED <<walletVars, keyVars, cryptoVars, socialVars>>

\* createConversation is confirmed: the new conversation is selected.
handleStartDM_created(c) ==
    /\ startingDM[c].at = "createConversation"
    /\ createConversation(c, startingDM[c].other)
    /\ selectedConversation' = [selectedConversation EXCEPT
            ![c] = conversationAddressOf(Len(conversations) + 1)]
    /\ viewMode' = [viewMode EXCEPT ![c] = "dms"]
    /\ startingDM' = [startingDM EXCEPT ![c].at = "done"]
    /\ UNCHANGED userRegistryAddress
    /\ UNCHANGED <<walletVars, keyVars, cryptoVars, socialVars>>

(***************************************************************************)
(* Session key set-up in App: the DM-view effect, the auto-create-profile  *)
(* effect and the two send handlers of the active account 1, each of which *)
(* reads sessionKeys.hasLocalKey from the render it was created in and     *)
(* calls initializeSessionKey.                                             *)
(***************************************************************************)
Handlers == {"effect", "autoCreateProfile", "handleSendMessage", "handleSendDMMessage"}

activeAddress == 1

\* The name of the n-th session key pair the client generates.
sessionKeyOf(n) == <<"k1", "k2", "k3", "k4">>[n]

\* initializeSessionKey that generates without looking at the stored key.
initializeSessionKey_regenerates(h) ==
    /\ localSessionKey' = sessionKeyOf(sessionKeysGenerated + 1)
    /\ sessionKeysGenerated' = sessionKeysGenerated + 1
    /\ handlers' = [handlers EXCEPT ![h] = [pc |-> "publishing", sawKey |-> FALSE]]
    /\ UNCHANGED hasLocalKey

\* initializeSessionKey up to its await: a stored key is detected and kept; otherwise
\* a key pair is generated and stored, and its public half is sent to the registry.
initializeSessionKey(h) ==
    IF localSessionKey # ""
    THEN /\ hasLocalKey' = TRUE
         /\ handlers' = [handlers EXCEPT ![h] = [pc |-> "idle", sawKey |-> FALSE]]
         /\ UNCHANGED <<localSessionKey, sessionKeysGenerated>>
    ELSE /\ localSessionKey' = sessionKeyOf(sessionKeysGenerated + 1)
         /\ sessionKeysGenerated' = sessionKeysGenerated + 1
         /\ handlers' = [handlers EXCEPT ![h] = [pc |-> "publishing", sawKey |-> FALSE]]
         /\ UNCHANGED hasLocalKey

\* initializeSessionKey after its await: setSessionPublicKey is confirmed.
initializeSessionKey_published(h) ==
    /\ handlers[h].pc = "publishing"
    /\ setSessionPublicKey(activeAddress, Str(64, localSessionKey))
    /\ hasLocalKey' = TRUE
    /\ handlers' = [handlers EXCEPT ![h] = [pc |-> "idle", sawKey |-> FALSE]]
    /\ UNCHANGED <<localSessionKey, sessionKeysGenerated>>
    /\ UNCHANGED <<walletVars, appVars, cryptoVars, socialVars>>

\* initializeSessionKey after its await: the transaction failed.
initializeSessionKey_catch(h) ==
    /\ handlers[h].pc = "publishing"
    /\ handlers' = [handlers EXCEPT ![h] = [pc |-> "idle", sawKey |-> FALSE]]
    /\ UNCHANGED <<localSessionKey, hasLocalKey, sessionKeysGenerated>>
    /\ UNCHANGED <<registryVars, dmVars, last>>
    /\ UNCHANGED <<walletVars, appVars, cryptoVars, socialVars>>

\* The effect that initializes the session key on entering the DM view.
autoInitializeSessionKey ==
    /\ handlers["effect"].pc = "idle"
    /\ ~hasLocalKey
    /\ profiles[activeAddress].exists
    /\ initializeSessionKey("effect")
    /\ UNCHANGED <<registryVars, dmVars, last>>
    /\ UNCHANGED <<walletVars, appVars, cryptoVars, socialVars>>

\* autoCreateProfile, handleSendMessage and handleSendDMMessage up to their first
\* await: without a profile, createDefaultProfile is sent.
createDefaultProfileFirst(h) ==
    /\ handlers[h].pc = "idle"
    /\ ~profiles[activeAddress].exists
    /\ handlers' = [handlers EXCEPT ![h] = [pc |-> "creating", sawKey |-> hasLocalKey]]
    /\ UNCHANGED <<localSessionKey, hasLocalKey, sessionKeysGenerated>>
    /\ UNCHANGED <<registryVars, dmVars, last>>
    /\ UNCHANGED <<walletVars, appVars, cryptoVars, socialVars>>

autoCreateProfile == createDefaultProfileFirst("autoCreateProfile")

handleSendMessage == createDefaultProfileFirst("handleSendMessage")

handleSendDMMessage == createDefaultProfileFirst("handleSendDMMessage")

\* The three after createDefaultProfile is confirmed: the session key is initialized
\* unless the render the handler belongs to had one.
profileCreated(h) ==
    /\ handlers[h].pc = "creating"
    /\ createDefaultProfile(activeAddress)
    /\ IF ~handlers[h].sawKey
       THEN initializeSessionKey(h)
       ELSE /\ handlers' = [handlers EXCEPT ![h] = [pc |-> "idle", sawKey |-> FALSE]]
            /\ UNCHANGED <<localSessionKey, hasLocalKey, sessionKeysGenerated>>
    /\ UNCHANGED <<walletVars, appVars, cryptoVars, socialVars>>

\* The three when createDefaultProfile fails (the profile exists by now, or the
\* transaction is rejected).
profileCreated_catch(h) ==
    /\ handlers[h].pc = "creating"
    /\ handlers' = [handlers EXCEPT ![h] = [pc |-> "idle", sawKey |-> FALSE]]
    /\ UNCHANGED <<localSessionKey, hasLocalKey, sessionKeysGenerated>>
    /\ UNCHANGED <<registryVars, dmVars, last>>
    /\ UNCHANGED <<walletVars, appVars, cryptoVars, socialVars>>

(***************************************************************************)
(* End-to-end encryption of a DM: a Diffie-Hellman exchange between the    *)
(* two session key pairs, a key derived from the shared secret, and an     *)
(* authenticated cipher whose blob is nonce, ciphertext and tag. The group *)
(* and the cipher are scaled down (a prime-order-22 group of residues in   *)
(* place of the curve, bytes added to a key stream in place of AES-GCM);   *)
(* every step is computed, none is taken as the identity.                  *)
(***************************************************************************)
GroupModulus == 23

GroupGenerator == 5

ByteModulus == 256

MaxPlaintextLen == 3

PrivateKeys == 1 .. 4

Bytes == {0, 1, 255}

Nonces == {0, 7}

NoResult == [status |-> "pending", bytes |-> <<>>]

RECURSIVE power(_, _)
power(base, exponent) ==
    IF exponent = 0 THEN 1
    ELSE (base * power(base, exponent - 1)) % GroupModulus

publicKeyOf(privateKey) == power(GroupGenerator, privateKey)

\* A key agreement that does not commute: the keys are added.
deriveSharedSecret_added(privateKey, publicKey) == (publicKey + privateKey) % GroupModulus

\* ECDH(myPrivateKey, theirPublicKey)
deriveSharedSecret(privateKey, publicKey) == power(publicKey, privateKey)

\* The symmetric key derived from the shared secret.
deriveKey(secret) == (secret * secret + 7) % 251

keyStream(key, n, i) == (key * 31 + n * 17 + i * 13) % ByteModulus

RECURSIVE weightedSum(_)
weightedSum(bytes) ==
    IF bytes = <<>> THEN 0
    ELSE (weightedSum(SubSeq(bytes, 1, Len(bytes) - 1)) + Len(bytes) * bytes[Len(bytes)])
             % ByteModulus

\* The authentication tag over nonce and ciphertext under the key.
tagOf(key, n, ciphertext) == (key * 3 + n + weightedSum(ciphertext) + 1) % ByteModulus

\* encrypt(plaintext, myPrivateKey, theirPublicKey): nonce, ciphertext, tag.
encrypt(bytes, privateKey, publicKey, n) ==
    LET key == deriveKey(deriveSharedSecret(privateKey, publicKey))
        ciphertext == [i \in 1 .. Len(bytes) |-> (bytes[i] + keyStream(key, n, i)) % ByteModulus]
    IN  <<n>> \o ciphertext \o <<tagOf(key, n, ciphertext)>>

\* decrypt(blob, myPrivateKey, theirPublicKey): the plaintext, or an error when the
\* blob is too short or its tag does not verify under the derived key.
decrypt(encrypted, privateKey, publicKey) ==
    IF Len(encrypted) < 2 THEN [status |-> "error", bytes |-> <<>>]
    ELSE LET key == deriveKey(deriveSharedSecret(privateKey, publicKey))
             n == encrypted[1]
             ciphertext == SubSeq(encrypted, 2, Len(encrypted) - 1)
             tag == encrypted[Len(encrypted)]
         IN  IF tag # tagOf(key, n, ciphertext)
             THEN [status |-> "error", bytes |-> <<>>]
             ELSE [status |-> "ok",
                   bytes |-> [i \in 1 .. Len(ciphertext) |->
                                 (ciphertext[i] + ByteModulus - keyStream(key, n, i))
                                     % ByteModulus]]

\* A encrypts the message for B.
encryptMessage ==
    /\ blob = <<>>
    /\ blob' = encrypt(plaintext, privateKeyA, publicKeyOf(privateKeyB), nonce)
    /\ UNCHANGED <<privateKeyA, privateKeyB, plaintext, nonce, decrypted>>
    /\ UNCHANGED <<registryVars, dmVars, last>>
    /\ UNCHANGED <<walletVars, appVars, keyVars, socialVars>>

\* B decrypts what A sent.
decryptMessage ==
    /\ blob # <<>>
    /\ decrypted = NoResult
    /\ decrypted' = decrypt(blob, privateKeyB, publicKeyOf(privateKeyA))
    /\ UNCHANGED <<privateKeyA, privateKeyB, plaintext, nonce, blob>>
    /\ UNCHANGED <<registryVars, dmVars, last>>
    /\ UNCHANGED <<walletVars, appVars, keyVars, socialVars>>

(***************************************************************************)
(* Initial state: the three contracts freshly deployed.                    *)
(***************************************************************************)
InitChain ==
    /\ profiles = [a \in Address |-> ZeroProfile]
    /\ profileLinks = [a \in Address |-> <<>>]
    /\ delegateToOwner = [a \in Address |-> ZeroAddress]
    /\ isDelegate = [a \in Address |-> [b \in Address |-> FALSE]]
    /\ sessionPublicKeys = [a \in Address |-> EmptyString]
    /\ userConversations = [a \in Address |-> <<>>]
    /\ conversationLookup = [h \in Address \X Address |-> ZeroAddress]
    /\ conversations = <<>>
    /\ blockTimestamp = 1
    /\ last = Call("deploy", 0)
    /\ tallies = [e \in Entities |-> [upvotes |-> 0, downvotes |-> 0]]
    /\ userVotes = [e \in Entities |-> [a \in Address |-> "None"]]
    /\ _following = [a \in Address |-> <<>>]
    /\ _followingIndex = [a \in Address |-> [b \in Address |-> 0]]
    /\ _followers = [a \in Address |-> <<>>]
    /\ _followerIndex = [a \in Address |-> [b \in Address |-> 0]]
    /\ followedFrom = [a \in Address |-> [b \in Address |-> ZeroAddress]]

\* The two clients of the DM views: accounts 1 and 2, each in its own browser.
Clients == {1, 2}

Idle == [at |-> "idle", other |-> ZeroAddress]

\* No client has a conversation selected or is starting one.
InitNoDM ==
    /\ selectedConversation = [c \in Clients |-> ZeroAddress]
    /\ viewMode = [c \in Clients |-> "channels"]
    /\ startingDM = [c \in Clients |-> Idle]

\* An App that has read the user registry's address from the channel registry.
InitApp ==
    /\ userRegistryAddress = "0xUserRegistry"
    /\ InitNoDM

\* useAppWallet as mounted, with empty localStorage.
InitWallet ==
    /\ userAddress = ZeroAddress
    /\ appWallet = ZeroAddress
    /\ isAuthorized = FALSE
    /\ isLoading = FALSE
    /\ error = FALSE
    /\ storedWallet = NoWallet
    /\ generatedWallets = 0
    /\ checksInFlight = {}
    /\ authorizing = {}
    /\ funding = 0
    /\ currentMode = "browser"
    /\ walletMode = "browser"
    /\ standaloneWallet = ZeroAddress

\* No effect or handler is running; the hook's state mirrors the stored key.
InitHandlers ==
    /\ hasLocalKey = (localSessionKey # "")
    /\ sessionKeysGenerated = 0
    /\ handlers = [h \in Handlers |-> [pc |-> "idle", sawKey |-> FALSE]]

\* No message is being encrypted.
InitNoMessage ==
    /\ privateKeyA = 1
    /\ privateKeyB = 1
    /\ plaintext = <<>>
    /\ nonce = 0
    /\ blob = <<>>
    /\ decrypted = NoResult

Init ==
    /\ InitChain
    /\ InitApp
    /\ InitWallet
    /\ localSessionKey = ""
    /\ InitHandlers
    /\ InitNoMessage

(***************************************************************************)
(* Inputs: lengths on and beyond each limit.                               *)
(***************************************************************************)
DisplayNames == {EmptyString, Str(5, "Alice"), Str(51, "long")}
Bios == {EmptyString, Str(3, "bio"), Str(501, "long")}
LinkNames == {EmptyString, Str(4, "site"), Str(51, "long")}
LinkUrls == {EmptyString, Str(9, "https://a"), Str(9, "https://b"), Str(201, "long")}
SessionKeys == {Str(63, "short"), Str(64, "key"), Str(65, "long")}
Ciphertexts == {EmptyString, Str(2000, "sealed"), Str(2001, "long")}

(***************************************************************************)
(* SpecRegistry: three accounts, their profiles and the delegation graph   *)
(* among them.  The calls that only write bio, links or session key read   *)
(* and write nothing these calls read, and are left to SpecProfile.        *)
(***************************************************************************)
NextRegistry ==
    \E sender \in Users :
        \/ \E n \in DisplayNames, b \in {EmptyString} :
                createProfile(sender, n, b) /\ UNCHANGED <<clientVars, socialVars>>
        \/ createDefaultProfile(sender) /\ UNCHANGED <<clientVars, socialVars>>
        \/ \E n \in DisplayNames : setDisplayName(sender, n) /\ UNCHANGED <<clientVars, socialVars>>
        \/ \E d \in Address : addDelegate(sender, d) /\ UNCHANGED <<clientVars, socialVars>>
        \/ \E d \in Address : removeDelegate(sender, d) /\ UNCHANGED <<clientVars, socialVars>>
        \/ \E n \in Address : transferProfileOwnership(sender, n) /\ UNCHANGED <<clientVars, socialVars>>

SpecRegistry == Init /\ [][NextRegistry]_vars

(***************************************************************************)
(* SpecProfile: the profile data of two accounts in its full range:        *)
(* names, bios, links, session keys, and their transfer.  MaxLinks caps    *)
(* the link lists a run builds.  Delegation is left to SpecRegistry.       *)
(***************************************************************************)
MaxLinks == 2

NextProfile ==
    \E sender \in {1, 2} :
        \/ \E n \in DisplayNames, b \in Bios :
                createProfile(sender, n, b) /\ UNCHANGED <<clientVars, socialVars>>
        \/ createDefaultProfile(sender) /\ UNCHANGED <<clientVars, socialVars>>
        \/ \E n \in DisplayNames : setDisplayName(sender, n) /\ UNCHANGED <<clientVars, socialVars>>
        \/ \E b \in Bios : setBio(sender, b) /\ UNCHANGED <<clientVars, socialVars>>
        \/ \E n \in LinkNames, u \in LinkUrls :
                /\ Len(profileLinks[sender]) < MaxLinks
                /\ addLink(sender, n, u)
                /\ UNCHANGED <<clientVars, socialVars>>
        \/ \E i \in 0 .. MaxLinks : removeLink(sender, i) /\ UNCHANGED <<clientVars, socialVars>>
        \/ clearLinks(sender) /\ UNCHANGED <<clientVars, socialVars>>
        \/ \E k \in SessionKeys : setSessionPublicKey(sender, k) /\ UNCHANGED <<clientVars, socialVars>>
        \/ clearSessionPublicKey(sender) /\ UNCHANGED <<clientVars, socialVars>>
        \/ \E n \in {0, 1, 2} : transferProfileOwnership(sender, n) /\ UNCHANGED <<clientVars, socialVars>>

SpecProfile == Init /\ [][NextProfile]_vars

(***************************************************************************)
(* SpecFrame: accounts 1 and 2 write every field of their profiles, with   *)
(* one value for each, delegate to any address and transfer to each other; *)
(* each may be the registered delegate of the other while it owns a        *)
(* profile of its own.                                                     *)
(***************************************************************************)
FrameSenders == {1, 2}

NextFrame ==
    \E sender \in FrameSenders :
        \/ createProfile(sender, Str(5, "Alice"), EmptyString) /\ UNCHANGED <<clientVars, socialVars>>
        \/ setDisplayName(sender, Str(3, "Bob")) /\ UNCHANGED <<clientVars, socialVars>>
        \/ setBio(sender, Str(3, "bio")) /\ UNCHANGED <<clientVars, socialVars>>
        \/ /\ Len(profileLinks[sender]) < MaxLinks
           /\ addLink(sender, Str(4, "site"), Str(9, "https://a"))
           /\ UNCHANGED <<clientVars, socialVars>>
        \/ \E i \in 0 .. MaxLinks : removeLink(sender, i) /\ UNCHANGED <<clientVars, socialVars>>
        \/ clearLinks(sender) /\ UNCHANGED <<clientVars, socialVars>>
        \/ setSessionPublicKey(sender, Str(64, "key")) /\ UNCHANGED <<clientVars, socialVars>>
        \/ clearSessionPublicKey(sender) /\ UNCHANGED <<clientVars, socialVars>>
        \/ \E d \in Address : addDelegate(sender, d) /\ UNCHANGED <<clientVars, socialVars>>
        \/ \E d \in Address : removeDelegate(sender, d) /\ UNCHANGED <<clientVars, socialVars>>
        \/ \E n \in {ZeroAddress} \cup FrameSenders :
                transferProfileOwnership(sender, n) /\ UNCHANGED <<clientVars, socialVars>>

SpecFrame == Init /\ [][NextFrame]_vars

(***************************************************************************)
(* SpecLinkLimit: accounts 1 and 2 fill their link lists to the contract's *)
(* limit with one link, remove from them, clear them and transfer them.    *)
(* ListEnd caps the lists a run builds one above the contract's limit.     *)
(***************************************************************************)
ListEnd == 11

NextLinkLimit ==
    \E sender \in {1, 2} :
        \/ createProfile(sender, Str(5, "Alice"), EmptyString) /\ UNCHANGED <<clientVars, socialVars>>
        \/ \E n \in LinkNames, u \in {EmptyString, Str(9, "https://a"), Str(201, "long")} :
                /\ Len(profileLinks[sender]) < ListEnd
                /\ addLink(sender, n, u)
                /\ UNCHANGED <<clientVars, socialVars>>
        \/ \E i \in {0, 9, 10} : removeLink(sender, i) /\ UNCHANGED <<clientVars, socialVars>>
        \/ clearLinks(sender) /\ UNCHANGED <<clientVars, socialVars>>
        \/ \E n \in {1, 2} : transferProfileOwnership(sender, n) /\ UNCHANGED <<clientVars, socialVars>>

SpecLinkLimit == Init /\ [][NextLinkLimit]_vars

(***************************************************************************)
(* SpecLinkOrder: account 1 builds lists of up to MaxOrderedLinks links    *)
(* out of three different ones and removes at every index, in and out of   *)
(* range.                                                                  *)
(***************************************************************************)
MaxOrderedLinks == 4

OrderedUrls == {Str(9, "https://a"), Str(9, "https://b"), Str(9, "https://c")}

NextLinkOrder ==
    \/ createProfile(1, Str(5, "Alice"), EmptyString) /\ UNCHANGED <<clientVars, socialVars>>
    \/ \E u \in OrderedUrls :
            /\ Len(profileLinks[1]) < MaxOrderedLinks
            /\ addLink(1, Str(4, "site"), u)
            /\ UNCHANGED <<clientVars, socialVars>>
    \/ \E i \in 0 .. MaxOrderedLinks + 1 : removeLink(1, i) /\ UNCHANGED <<clientVars, socialVars>>
    \/ clearLinks(1) /\ UNCHANGED <<clientVars, socialVars>>

SpecLinkOrder == Init /\ [][NextLinkOrder]_vars

(***************************************************************************)
(* SpecDirectory: the conversation directory over the identity registry.   *)
(* Profiles are created, delegated and transferred, and any account starts *)
(* a conversation with any other.                                          *)
(***************************************************************************)
MaxConversations == 2

NextDirectory ==
    \E sender \in Users :
        \/ createProfile(sender, Str(5, "Alice"), EmptyString) /\ UNCHANGED <<clientVars, socialVars>>
        \/ \E d \in Address : addDelegate(sender, d) /\ UNCHANGED <<clientVars, socialVars>>
        \/ \E d \in Address : removeDelegate(sender, d) /\ UNCHANGED <<clientVars, socialVars>>
        \/ \E n \in Address : transferProfileOwnership(sender, n) /\ UNCHANGED <<clientVars, socialVars>>
        \/ \E o \in Address :
                /\ Len(conversations) < MaxConversations
                /\ createConversation(sender, o)
                /\ UNCHANGED <<clientVars, socialVars>>

SpecDirectory == Init /\ [][NextDirectory]_vars

(***************************************************************************)
(* SpecLedger: one conversation ledger, deployed by the directory for any  *)
(* pair of the three accounts, over the identity registry.  Any account    *)
(* posts at any time, in any block, while profiles are created and         *)
(* transferred and account 3 is made and unmade the delegate of any owner  *)
(* (account 3 may itself be a participant and a profile owner).            *)
(***************************************************************************)
MaxMessages == 2
MaxTimestamp == 2

\* The accounts that SpecLedger registers as delegates.
LedgerDelegates == {0, 3}

NextLedger ==
    \/ \E sender \in Users :
        \/ createProfile(sender, Str(5, "Alice"), EmptyString) /\ UNCHANGED <<clientVars, socialVars>>
        \/ \E d \in LedgerDelegates : addDelegate(sender, d) /\ UNCHANGED <<clientVars, socialVars>>
        \/ \E d \in LedgerDelegates : removeDelegate(sender, d) /\ UNCHANGED <<clientVars, socialVars>>
        \/ \E n \in Address : transferProfileOwnership(sender, n) /\ UNCHANGED <<clientVars, socialVars>>
        \/ \E o \in Address :
                /\ conversations = <<>>
                /\ createConversation(sender, o)
                /\ UNCHANGED <<clientVars, socialVars>>
        \/ \E c \in ConversationAddresses, e \in Ciphertexts :
                /\ getMessageCount(c) < MaxMessages
                /\ postMessage(sender, c, e)
                /\ UNCHANGED <<clientVars, socialVars>>
    \/ blockTimestamp < MaxTimestamp /\ mineBlock /\ UNCHANGED <<clientVars, socialVars>>

SpecLedger == Init /\ [][NextLedger]_vars

(***************************************************************************)
(* SpecReader: one conversation ledger that its accounts fill and read in  *)
(* ranges, with start and count from both ends of the word.                *)
(***************************************************************************)
ReadArgs == {0, 1, 2, 3, UintMax}

NextReader ==
    \/ \E sender \in Users :
        \/ \E o \in Address :
                /\ conversations = <<>>
                /\ createConversation(sender, o)
                /\ UNCHANGED <<clientVars, socialVars>>
        \/ \E c \in ConversationAddresses, e \in Ciphertexts :
                /\ getMessageCount(c) < MaxMessages
                /\ postMessage(sender, c, e)
                /\ UNCHANGED <<clientVars, socialVars>>
    \/ \E c \in ConversationAddresses, startIndex \in ReadArgs, count \in ReadArgs :
            getMessages(c, startIndex, count) /\ UNCHANGED <<clientVars, socialVars>>
    \/ \E c \in ConversationAddresses, count \in ReadArgs :
            getLatestMessages(c, count) /\ UNCHANGED <<clientVars, socialVars>>
    \/ blockTimestamp < MaxTimestamp /\ mineBlock /\ UNCHANGED <<clientVars, socialVars>>

SpecReader == Init /\ [][NextReader]_vars

(***************************************************************************)
(* SpecDelegateWallet: the browser account 1 connects and drops, its       *)
(* delegate wallet is initialized, authorized, checked against the chain   *)
(* and disconnected, in any interleaving of the awaited calls.             *)
(***************************************************************************)
MaxFunding == 2

NextDelegateWallet ==
    \/ createProfile(1, Str(5, "Alice"), EmptyString) /\ UNCHANGED <<clientVars, socialVars>>
    \/ (isWalletAuthorizedFor(1) \/ generatedWallets < Cardinality(WalletAddresses))
            /\ connectAccount(1)
    \/ disconnectAccount
    \/ \E check \in checksInFlight : checkAuthorization(check)
    \/ \E check \in checksInFlight : checkAuthorization_catch(check)
    \/ authorizeDelegate
    \/ \E call \in authorizing : authorizeDelegate_confirmed(call)
    \/ \E call \in authorizing : authorizeDelegate_catch(call)
    \/ funding < MaxFunding /\ fundWallet
    \/ fundWallet_confirmed
    \/ fundWallet_catch
    \/ onDisconnect
    \/ handleSelectBrowserWallet

SpecDelegateWallet == Init /\ [][NextDelegateWallet]_vars

(***************************************************************************)
(* SpecStandaloneWallet: from the wallet choice the user picks the in-app  *)
(* wallet, enters standalone mode, gets a default profile, renames it,     *)
(* funds the wallet and disconnects, any number of times.                  *)
(***************************************************************************)
InitStandaloneWallet ==
    /\ InitChain
    /\ InitApp
    /\ userAddress = ZeroAddress
    /\ appWallet = ZeroAddress
    /\ isAuthorized = FALSE
    /\ isLoading = FALSE
    /\ error = FALSE
    /\ storedWallet = NoWallet
    /\ generatedWallets = 0
    /\ checksInFlight = {}
    /\ authorizing = {}
    /\ funding = 0
    /\ currentMode = "none"
    /\ walletMode = "none"
    /\ standaloneWallet = ZeroAddress
    /\ localSessionKey = ""
    /\ InitHandlers
    /\ InitNoMessage

NextStandaloneWallet ==
    \/ (standaloneWallet # ZeroAddress \/ generatedWallets < Cardinality(WalletAddresses))
            /\ handleSelectInAppWallet
    \/ handleInAppSetupContinue
    \/ /\ walletMode = "standalone"
       /\ appWallet # ZeroAddress
       /\ createDefaultProfile(appWallet)
       /\ UNCHANGED <<clientVars, socialVars>>
    \/ /\ walletMode = "standalone"
       /\ appWallet # ZeroAddress
       /\ setDisplayName(appWallet, Str(3, "Bob"))
       /\ UNCHANGED <<clientVars, socialVars>>
    \/ funding < MaxFunding /\ fundWallet
    \/ fundWallet_confirmed
    \/ fundWallet_catch
    \/ onDisconnect

SpecStandaloneWallet == InitStandaloneWallet /\ [][NextStandaloneWallet]_vars

(***************************************************************************)
(* SpecVoting: three accounts create and transfer profiles, delegate to    *)
(* one another and vote on an entity, as themselves or as delegates.       *)
(***************************************************************************)
NextVoting ==
    \E sender \in Users :
        \/ createProfile(sender, Str(5, "Alice"), EmptyString)
                /\ UNCHANGED <<clientVars, socialVars>>
        \/ \E d \in Address : addDelegate(sender, d) /\ UNCHANGED <<clientVars, socialVars>>
        \/ \E d \in Address : removeDelegate(sender, d)
                /\ UNCHANGED <<clientVars, socialVars>>
        \/ \E n \in Address : transferProfileOwnership(sender, n)
                /\ UNCHANGED <<clientVars, socialVars>>
        \/ \E e \in Entities, t \in VoteTypes : vote(sender, e, t) /\ UNCHANGED <<clientVars, followVars>>
        \/ \E e \in Entities : removeVote(sender, e) /\ UNCHANGED <<clientVars, followVars>>

SpecVoting == Init /\ [][NextVoting]_vars

(***************************************************************************)
(* SpecFollow: three accounts follow and unfollow each other while account *)
(* 1 creates a profile and registers and removes delegates.                *)
(***************************************************************************)
NextFollow ==
    \/ createProfile(1, Str(5, "Alice"), EmptyString) /\ UNCHANGED <<clientVars, socialVars>>
    \/ \E d \in Users : addDelegate(1, d) /\ UNCHANGED <<clientVars, socialVars>>
    \/ \E d \in Users : removeDelegate(1, d) /\ UNCHANGED <<clientVars, socialVars>>
    \/ \E sender \in Users, user \in Address :
            follow(sender, user) /\ UNCHANGED <<clientVars, votingVars>>
    \/ \E sender \in Users, user \in Address :
            unfollow(sender, user) /\ UNCHANGED <<clientVars, votingVars>>

SpecFollow == Init /\ [][NextFollow]_vars

(***************************************************************************)
(* SpecReload: the page of the browser account 1 is loaded, the account    *)
(* connects, authorizes its delegate wallet, and the page is loaded again, *)
(* while the read of the user registry's address answers at any time after *)
(* a load.  In SpecReloadFair every awaited call gets its answer.          *)
(***************************************************************************)
InitReload ==
    /\ InitChain
    /\ InitWallet
    /\ userRegistryAddress = ""
    /\ InitNoDM
    /\ localSessionKey = ""
    /\ InitHandlers
    /\ InitNoMessage

NextReload ==
    \/ createProfile(1, Str(5, "Alice"), EmptyString) /\ UNCHANGED <<clientVars, socialVars>>
    \/ (isWalletAuthorizedFor(1) \/ generatedWallets < Cardinality(WalletAddresses))
            /\ connectAccount(1)
    \/ getUserRegistryAddress_then
    \/ \E check \in checksInFlight : checkAuthorization(check)
    \/ authorizeDelegate
    \/ \E call \in authorizing : authorizeDelegate_confirmed(call)
    \/ \E call \in authorizing : authorizeDelegate_catch(call)
    \/ reload

SpecReload == InitReload /\ [][NextReload]_vars

SpecReloadFair ==
    /\ SpecReload
    /\ WF_vars(getUserRegistryAddress_then)
    /\ WF_vars(\E check \in checksInFlight : checkAuthorization(check))
    /\ WF_vars(\E call \in authorizing : authorizeDelegate_confirmed(call))
    /\ WF_vars(\E call \in authorizing : authorizeDelegate_catch(call))

(***************************************************************************)
(* SpecStartDM: the clients of accounts 1 and 2 start conversations with   *)
(* each other and with account 3, in any interleaving of their awaited     *)
(* calls.                                                                  *)
(***************************************************************************)
NextStartDM ==
    \E c \in Clients :
        \/ \E otherUserAddress \in Users \ {c} : handleStartDM(c, otherUserAddress)
        \/ handleStartDM_existingConv(c)
        \/ handleStartDM_created(c)
        \/ handleStartDM_catch(c)

SpecStartDM == Init /\ [][NextStartDM]_vars

(***************************************************************************)
(* SpecSessionKeys: the effects and handlers of account 1 run in any       *)
(* interleaving of their awaited calls, from a client with or without a    *)
(* stored session key; the profile may also be created from elsewhere.     *)
(***************************************************************************)
InitSessionKeys ==
    /\ InitChain
    /\ InitApp
    /\ InitWallet
    /\ localSessionKey \in {"", "k0"}
    /\ InitHandlers
    /\ InitNoMessage

NextSessionKeys ==
    \/ createProfile(activeAddress, Str(5, "Alice"), EmptyString) /\ UNCHANGED <<clientVars, socialVars>>
    \/ autoInitializeSessionKey
    \/ autoCreateProfile
    \/ handleSendMessage
    \/ handleSendDMMessage
    \/ \E h \in Handlers : profileCreated(h)
    \/ \E h \in Handlers : profileCreated_catch(h)
    \/ \E h \in Handlers : initializeSessionKey_published(h)
    \/ \E h \in Handlers : initializeSessionKey_catch(h)

SpecSessionKeys == InitSessionKeys /\ [][NextSessionKeys]_vars

(***************************************************************************)
(* SpecCrypto: any two session key pairs, any plaintext of up to           *)
(* MaxPlaintextLen bytes and any nonce; A encrypts, B decrypts.            *)
(***************************************************************************)
RECURSIVE SeqsUpTo(_, _)
SeqsUpTo(S, n) ==
    IF n = 0 THEN {<<>>}
    ELSE SeqsUpTo(S, n - 1) \cup {Append(q, x) : q \in SeqsUpTo(S, n - 1), x \in S}

InitCrypto ==
    /\ InitChain
    /\ InitApp
    /\ InitWallet
    /\ localSessionKey = ""
    /\ InitHandlers
    /\ privateKeyA \in PrivateKeys
    /\ privateKeyB \in PrivateKeys
    /\ plaintext \in SeqsUpTo(Bytes, MaxPlaintextLen)
    /\ nonce \in Nonces
    /\ blob = <<>>
    /\ decrypted = NoResult

NextCrypto ==
    \/ encryptMessage
    \/ decryptMessage

SpecCrypto == InitCrypto /\ [][NextCrypto]_vars

(***************************************************************************)
(* Properties                                                              *)
(***************************************************************************)
Range(seq) == {seq[i] : i \in 1 .. Len(seq)}

participantsOf(i) == {conversations[i].participant1, conversations[i].participant2}

\* C1: an address is a registered delegate of at most one owner, and addDelegate(d)
\* by an owner fails while d is a registered delegate of another owner.
C1_DelegateHasOneOwner ==
    /\ \A d \in Address, o1 \in Address, o2 \in Address :
            isDelegate[o1][d] /\ isDelegate[o2][d] => o1 = o2
    /\ \A o \in Users, d \in Address :
            (\E o2 \in Address \ {o} : isDelegate[o2][d]) => ~ENABLED addDelegate(o, d)

\* C1 witness: d was added as a delegate of o1, and a second profile owner o2, who is
\* not d, is refused d.
C1_Witness ==
    /\ last.op = "addDelegate"
    /\ \E d \in Users, o1 \in Users, o2 \in Users :
            /\ o1 # o2 /\ o2 # d
            /\ isDelegate[o1][d]
            /\ onlyProfileOwner(o2)
            /\ ~ENABLED addDelegate(o2, d)

\* C2: no two conversations share their unordered pair of participants, and once a
\* conversation of a and b exists, createConversation fails from a for b and from b
\* for a.
C2_OneConversationPerPair ==
    /\ \A i \in 1 .. Len(conversations), j \in 1 .. Len(conversations) :
            i # j => participantsOf(i) # participantsOf(j)
    /\ \A a \in Users, b \in Users :
            (\E i \in 1 .. Len(conversations) : participantsOf(i) = {a, b})
                => ~ENABLED createConversation(a, b) /\ ~ENABLED createConversation(b, a)

\* C2 witness: a created its conversation with b, b is refused one with a, and the
\* directory goes on to create a conversation for another pair.
C2_Witness ==
    /\ last.op = "createConversation"
    /\ Len(conversations) = 2
    /\ conversations[1].participant1 < conversations[1].participant2
    /\ ~ENABLED createConversation(conversations[1].participant2,
                                   conversations[1].participant1)

\* C3: when a registered delegate of owner O calls createConversation(other), the new
\* conversation has O and other as its participants, is stored under the pair key of
\* (O, other), and is listed under O.
C3_CreateResolvesCaller ==
    [][\A s \in Users, other \in Address :
            (/\ createConversation(s, other)
             /\ delegateToOwner[s] # ZeroAddress
             /\ delegateToOwner[s] # other) =>
                LET O == delegateToOwner[s]
                    n == Len(conversations')
                    created == conversations'[n]
                IN  /\ {created.participant1, created.participant2} = {O, other}
                    /\ conversationLookup'[_getPairHash(O, other)] = conversationAddressOf(n)
                    /\ conversationAddressOf(n) \in Range(userConversations'[O])]_vars

\* C4: a successful transferProfileOwnership(newOwner) by O leaves O without profile,
\* links and session key, and newOwner with a profile that has exactly O's former
\* displayName, bio, links (same entries in the same order) and session key.
C4_TransferMovesProfile ==
    [][\A O \in Users, newOwner \in Address :
            transferProfileOwnership(O, newOwner) =>
                /\ ~profiles'[O].exists
                /\ profiles'[O] = ZeroProfile
                /\ profileLinks'[O] = <<>>
                /\ sessionPublicKeys'[O].len = 0
                /\ profiles'[newOwner].exists
                /\ profiles'[newOwner].displayName = profiles[O].displayName
                /\ profiles'[newOwner].bio = profiles[O].bio
                /\ profileLinks'[newOwner] = profileLinks[O]
                /\ sessionPublicKeys'[newOwner] = sessionPublicKeys[O]]_vars

\* C4 witness: a transfer has just moved a profile with a bio, two different links and
\* a session key; the other account holds nothing.
C4_Witness ==
    /\ last.op = "transferProfileOwnership"
    /\ \E O \in {1, 2}, newOwner \in {1, 2} :
            /\ O # newOwner
            /\ ~profiles[O].exists
            /\ profiles[newOwner].exists
            /\ profiles[newOwner].bio.len > 0
            /\ Len(profileLinks[newOwner]) = 2
            /\ profileLinks[newOwner][1] # profileLinks[newOwner][2]
            /\ sessionPublicKeys[newOwner].len = 64

\* C5: transferProfileOwnership(newOwner) fails (and so changes nothing) whenever
\* newOwner has a profile or is a registered delegate of any owner.
C5_TransferRefused ==
    \A s \in Users, newOwner \in Address :
        (profiles[newOwner].exists \/ \E o \in Address : isDelegate[o][newOwner])
            => ~ENABLED transferProfileOwnership(s, newOwner)

\* C5 witness: a profile owner s is refused the transfer to an address that has no
\* profile and is the delegate of another owner.
C5_Witness ==
    /\ last.op = "addDelegate"
    /\ \E s \in Users, newOwner \in Users, o \in Users :
            /\ s # o /\ s # newOwner
            /\ onlyProfileOwner(s)
            /\ ~profiles[newOwner].exists
            /\ isDelegate[o][newOwner]
            /\ ~ENABLED transferProfileOwnership(s, newOwner)

\* C6: every address that has a profile resolves to itself.
C6_OwnerResolvesToItself ==
    \A a \in Address : profiles[a].exists => resolveToOwner(a) = a

\* C7: every stored message's senderOwner is one of the two participants, and
\* postMessage fails for every caller whose resolved identity is neither.
C7_OnlyParticipantsPost ==
    \A c \in ConversationAddresses :
        /\ \A i \in 0 .. getMessageCount(c) - 1 :
                getMessage(c, i).senderOwner \in
                    {conversationAt(c).participant1, conversationAt(c).participant2}
        /\ \A u \in Users, e \in Ciphertexts :
                LET owner == IF delegateToOwner[u] # ZeroAddress
                             THEN delegateToOwner[u] ELSE u
                IN  owner \notin {conversationAt(c).participant1,
                                  conversationAt(c).participant2}
                        => ~ENABLED postMessage(u, c, e)

\* C7 witness: a delegate has posted for a participant, and an account that is a
\* delegate of a non-participant is refused.
C7_Witness ==
    /\ last.op = "postMessage"
    /\ \E c \in ConversationAddresses :
            /\ \E i \in 0 .. getMessageCount(c) - 1 :
                    getMessage(c, i).senderOwner # getMessage(c, i).senderAddress
            /\ \E u \in Users :
                    /\ delegateToOwner[u] # ZeroAddress
                    /\ delegateToOwner[u] \notin {conversationAt(c).participant1,
                                                  conversationAt(c).participant2}
                    /\ ~ENABLED postMessage(u, c, Str(2000, "sealed"))

\* The message a step has just appended to the conversation at c.
appended(c) == conversationAt(c).messages[Len(conversationAt(c).messages)]

C9_IndicesInLedgerOrder ==
    [][\A c \in ConversationAddresses' :
            IF c \in ConversationAddresses
            THEN IF \E s \in Users, e \in Ciphertexts : postMessage(s, c, e)
                 THEN /\ last'.ret = getMessageCount(c)
                      /\ getMessageCount(c)' = getMessageCount(c) + 1
                      /\ \E s \in Users, e \in Ciphertexts :
                            /\ postMessage(s, c, e)
                            /\ conversations'[c - 100].messages[last'.ret + 1].senderAddress = s
                            /\ conversations'[c - 100].messages[last'.ret + 1].encryptedContent = e
                 ELSE getMessageCount(c)' = getMessageCount(c)
            ELSE getMessageCount(c)' = 0]_vars

\* C9 witness: a participant and the delegate of the other participant have both
\* posted; the second post returned index 1.
C9_Witness ==
    /\ last.op = "postMessage"
    /\ last.ret = 1
    /\ \E c \in ConversationAddresses :
            /\ getMessageCount(c) = 2
            /\ getMessage(c, 0).senderOwner # getMessage(c, 1).senderOwner
            /\ \E i \in {0, 1} : getMessage(c, i).senderOwner # getMessage(c, i).senderAddress

\* C10: a stored message stays at its index with the same senderOwner, senderAddress,
\* ciphertext and timestamp through every later step.
C10_MessagesImmutable ==
    [][\A c \in ConversationAddresses :
            /\ c \in ConversationAddresses'
            /\ \A i \in 0 .. getMessageCount(c) - 1 :
                    /\ i < getMessageCount(c)'
                    /\ getMessage(c, i)' = getMessage(c, i)]_vars

\* C10 witness: a message posted by a delegate in an earlier block is followed by a
\* later message, the delegate has been removed, and the owner's profile is gone.
C10_Witness ==
    \E c \in ConversationAddresses :
        /\ getMessageCount(c) = 2
        /\ getMessage(c, 0).senderOwner # getMessage(c, 0).senderAddress
        /\ getMessage(c, 0).timestamp < getMessage(c, 1).timestamp
        /\ delegateToOwner[getMessage(c, 0).senderAddress] = ZeroAddress
        /\ ~profiles[getMessage(c, 0).senderOwner].exists

\* C11: getMessages(start, count) never fails, whatever the two arguments, and returns
\* exactly the messages at the indices i with start <= i < min(start + count, total),
\* in ledger order (none when start >= total).
C11_GetMessagesNeverFails ==
    /\ [](\A c \in ConversationAddresses, startIndex \in ReadArgs, count \in ReadArgs :
            ENABLED getMessages(c, startIndex, count))
    /\ [][\A c \in ConversationAddresses, startIndex \in ReadArgs, count \in ReadArgs :
            last'.op = "getMessages" /\ getMessages(c, startIndex, count) =>
                LET inRange == {i \in 0 .. getMessageCount(c) - 1 :
                                    startIndex <= i /\ i - startIndex < count}
                IN  /\ Len(last'.ret) = Cardinality(inRange)
                    /\ \A k \in 1 .. Len(last'.ret) :
                            /\ startIndex + k - 1 \in inRange
                            /\ last'.ret[k] = getMessage(c, startIndex + k - 1)]_vars

\* Ciphertexts of the lengths on both sides of each limit of postMessage.
BoundaryCiphertexts == {EmptyString, Str(1, "a"), Str(1999, "under"), Str(2000, "sealed"),
                        Str(2001, "long"), Str(UintMax, "huge")}

\* The caller's resolved identity is one of the two participants of c.
authorized(c, u) ==
    LET owner == IF delegateToOwner[u] # ZeroAddress THEN delegateToOwner[u] ELSE u
    IN  owner \in {conversationAt(c).participant1, conversationAt(c).participant2}

\* C12: postMessage by an authorized caller succeeds for every ciphertext of 1 to 2000
\* bytes and fails for an empty one and for one of 2001 bytes or more; a failed call
\* changes nothing, so the messages of a conversation change only by a successful
\* post of a ciphertext of 1 to 2000 bytes.
C12_CiphertextLengthLimits ==
    /\ [](\A c \in ConversationAddresses, u \in Users, e \in BoundaryCiphertexts :
            authorized(c, u) =>
                ((e.len >= 1 /\ e.len <= 2000) <=> ENABLED postMessage(u, c, e)))
    /\ [][\A c \in ConversationAddresses :
            conversationAt(c)' # conversationAt(c) =>
                \E u \in Users, e \in Ciphertexts :
                    /\ postMessage(u, c, e)
                    /\ e.len >= 1 /\ e.len <= 2000
                    /\ authorized(c, u)]_vars

\* C12 witness: a delegate has posted a ciphertext of exactly 2000 bytes for a
\* participant, and is refused the empty ciphertext and the one of 2001 bytes.
C12_Witness ==
    /\ last.op = "postMessage"
    /\ \E c \in ConversationAddresses :
            LET m == getMessage(c, getMessageCount(c) - 1)
            IN  /\ m.encryptedContent.len = 2000
                /\ m.senderOwner # m.senderAddress
                /\ authorized(c, m.senderAddress)
                /\ ~ENABLED postMessage(m.senderAddress, c, EmptyString)
                /\ ~ENABLED postMessage(m.senderAddress, c, Str(2001, "long"))

\* C13: isParticipant(a) is true exactly when a postMessage call made by a with a
\* ciphertext of valid length would be accepted.
C13_IsParticipantIffMayPost ==
    \A c \in ConversationAddresses, a \in Users, e \in BoundaryCiphertexts :
        (e.len >= 1 /\ e.len <= 2000) =>
            (isParticipant(c, a) <=> ENABLED postMessage(a, c, e))

\* C13 witness: an account has posted as the delegate of a participant; now it is a
\* participant address registered as the delegate of an outsider, is not identified
\* as a participant and is refused, while the other participant is identified.
C13_Witness ==
    \E c \in ConversationAddresses :
        /\ \E i \in 0 .. getMessageCount(c) - 1 :
                getMessage(c, i).senderOwner # getMessage(c, i).senderAddress
        /\ \E a \in {conversationAt(c).participant1, conversationAt(c).participant2} :
                isParticipant(c, a) /\ ENABLED postMessage(a, c, Str(1, "a"))
        /\ \E a \in {conversationAt(c).participant1, conversationAt(c).participant2} :
                /\ delegateToOwner[a] # ZeroAddress
                /\ ~isParticipant(c, a)
                /\ ~ENABLED postMessage(a, c, Str(2000, "sealed"))

\* C14: whatever profile, delegate and transfer operations any accounts perform, each
\* of the two participant addresses of a conversation is identified as a participant
\* and is allowed to post.
C14_ParticipantsStayParticipants ==
    \A c \in ConversationAddresses :
        \A a \in {conversationAt(c).participant1, conversationAt(c).participant2} :
            /\ isParticipant(c, a)
            /\ ENABLED postMessage(a, c, Str(2000, "sealed"))

\* d is registered as a delegate of nobody.
unregistered(d) ==
    /\ delegateToOwner[d] = ZeroAddress
    /\ \A x \in Address : ~isDelegate[x][d]

\* d cannot act for owner o: not in the registry, and not in any conversation in
\* which o, and not d itself, is a participant.
cannotActFor(d, o) ==
    /\ ~canActAs(d, o)
    /\ resolveToOwner(d) # o
    /\ \A c \in ConversationAddresses :
            (o \in {conversationAt(c).participant1, conversationAt(c).participant2}
                /\ d \notin {conversationAt(c).participant1, conversationAt(c).participant2})
            => \A e \in BoundaryCiphertexts : ~ENABLED postMessage(d, c, e)

\* C15: a successful removeDelegate(d) by owner o leaves d registered to nobody and
\* unable to act for o (canActAs(d, o) is false, resolveToOwner(d) is not o, and d's
\* postMessage to a conversation of o that d is no participant of is rejected); d
\* stays so through every step until an addDelegate of d.
C15_RemovedDelegateCannotAct ==
    /\ [](\A o \in Users, d \in Address :
            (d # o /\ unregistered(d)) => cannotActFor(d, o))
    /\ [][\A o \in Users, d \in Address :
            /\ removeDelegate(o, d) => (unregistered(d) /\ cannotActFor(d, o))'
            /\ (unregistered(d) /\ ~unregistered(d)') =>
                    \E x \in Users : addDelegate(x, d)]_vars

\* C15 witness: a delegate posted for a participant of a conversation it is no
\* participant of, has just been removed by that owner, and is now refused.
C15_Witness ==
    /\ last.op = "removeDelegate"
    /\ \E c \in ConversationAddresses :
            LET m == getMessage(c, getMessageCount(c) - 1)
            IN  /\ getMessageCount(c) > 0
                /\ m.senderOwner # m.senderAddress
                /\ m.senderAddress \notin {conversationAt(c).participant1,
                                           conversationAt(c).participant2}
                /\ onlyProfileOwner(m.senderOwner)
                /\ unregistered(m.senderAddress)
                /\ ~canActAs(m.senderAddress, m.senderOwner)
                /\ ~ENABLED postMessage(m.senderAddress, c, Str(2000, "sealed"))

\* Everything the registry stores under the address y.
storedUnder(y) ==
    <<profiles[y], profileLinks[y], sessionPublicKeys[y],
      {d \in Address : isDelegate[y][d]}>>

\* The step is a call of the registry sent by x.
sentBy(x) ==
    \/ last'.op = "createProfile"
            /\ \E n \in DisplayNames, b \in Bios : createProfile(x, n, b)
    \/ last'.op = "createDefaultProfile" /\ createDefaultProfile(x)
    \/ last'.op = "setDisplayName"
            /\ \E n \in DisplayNames \cup {Str(3, "Bob")} : setDisplayName(x, n)
    \/ last'.op = "setBio" /\ \E b \in Bios : setBio(x, b)
    \/ last'.op = "addLink" /\ \E n \in LinkNames, u \in LinkUrls : addLink(x, n, u)
    \/ last'.op = "removeLink" /\ \E i \in 0 .. 9 : removeLink(x, i)
    \/ last'.op = "clearLinks" /\ clearLinks(x)
    \/ last'.op = "setSessionPublicKey"
            /\ \E k \in SessionKeys : setSessionPublicKey(x, k)
    \/ last'.op = "clearSessionPublicKey" /\ clearSessionPublicKey(x)
    \/ last'.op = "addDelegate" /\ \E d \in Address : addDelegate(x, d)
    \/ last'.op = "removeDelegate" /\ \E d \in Address : removeDelegate(x, d)
    \/ last'.op = "transferProfileOwnership"
            /\ \E n \in Address : transferProfileOwnership(x, n)

\* C19: a call sent by x changes nothing stored under another address y (profile,
\* links, session key, delegate set), except that transferProfileOwnership(y) by x
\* creates y's profile from x's data; so a registered delegate of y changes none of
\* y's profile fields.
C19_OnlyOwnerChangesProfile ==
    [][\A x \in Users :
            sentBy(x) =>
                \A y \in Address \ {x} :
                    \/ storedUnder(y)' = storedUnder(y)
                    \/ /\ transferProfileOwnership(x, y)
                       /\ ~profiles[y].exists
                       /\ profiles'[y] = [profiles[x] EXCEPT !.owner = y]
                       /\ profileLinks'[y] = profileLinks[y] \o profileLinks[x]
                       /\ sessionPublicKeys'[y] =
                            IF sessionPublicKeys[x].len > 0
                            THEN sessionPublicKeys[x] ELSE sessionPublicKeys[y]
                       /\ \A d \in Address : isDelegate'[y][d] = isDelegate[y][d]]_vars

\* C19 witness: x is a registered delegate of y and owns a profile; x has just set
\* its bio, and the bio of y is still empty.
C19_Witness ==
    /\ last.op = "setBio"
    /\ \E x \in Users, y \in Users :
            /\ isDelegate[y][x]
            /\ profiles[y].exists
            /\ profiles[x].exists
            /\ profiles[x].bio.len > 0
            /\ profiles[y].bio.len = 0

\* C20: getConversation and conversationExists give the same answer for (a, b) and
\* (b, a); conversationExists(a, b) is true exactly when a conversation with the
\* participants a and b has been created, and getConversation then returns it.
C20_LookupsSymmetric ==
    \A a \in Address, b \in Address :
        /\ getConversation(a, b) = getConversation(b, a)
        /\ conversationExists(a, b) = conversationExists(b, a)
        /\ conversationExists(a, b) <=>
                \E i \in 1 .. Len(conversations) : participantsOf(i) = {a, b}
        /\ \A i \in 1 .. Len(conversations) :
                participantsOf(i) = {a, b} =>
                    getConversation(a, b) = conversationAddressOf(i)

\* C20 witness: the account with the higher address created a conversation, which
\* both argument orders return, next to a second conversation and a pair without one.
C20_Witness ==
    /\ last.op = "createConversation"
    /\ Len(conversations) = 2
    /\ conversations[1].participant1 > conversations[1].participant2
    /\ getConversation(conversations[1].participant1, conversations[1].participant2)
            = conversationAddressOf(1)
    /\ getConversation(conversations[1].participant2, conversations[1].participant1)
            = conversationAddressOf(1)
    /\ \E a \in Users, b \in Users : a # b /\ ~conversationExists(a, b)

\* C16: in browser-wallet mode isAuthorized is never true for a delegate wallet whose
\* registration for the connected owner has not been confirmed on chain, and the
\* wallet is persisted only once it is registered; an authorize call that is pending
\* or has failed leaves the wallet unpersisted and unauthorized.
C16_AuthorizedOnlyAfterConfirmation ==
    /\ (isAuthorized /\ appWallet # ZeroAddress) =>
            (userAddress # ZeroAddress /\ isDelegate[userAddress][appWallet])
    /\ storedWallet.wallet # ZeroAddress =>
            isDelegate[storedWallet.authorizedFor][storedWallet.wallet]

C18_DecryptInvertsEncrypt ==
    decrypted # NoResult => decrypted = [status |-> "ok", bytes |-> plaintext]

\* C18 witness: two different key pairs, a plaintext of the largest size, a blob
\* whose ciphertext differs from the plaintext, and B has decrypted it.
C18_Witness ==
    /\ privateKeyA # privateKeyB
    /\ Len(plaintext) = MaxPlaintextLen
    /\ SubSeq(blob, 2, Len(blob) - 1) # plaintext
    /\ decrypted.status = "ok"
    /\ decrypted.bytes = plaintext

\* How often x occurs in seq.
occurrences(seq, x) == Cardinality({i \in DOMAIN seq : seq[i] = x})

\* C21: each created conversation with participants p1 and p2 appears exactly once
\* in getConversations(p1), exactly once in getConversations(p2) and in no other
\* address's list, the lists hold nothing else, and a createConversation that fails
\* (zero address, the caller itself, a pair that has a conversation) changes nothing.
C21_IndexedUnderBothParticipants ==
    /\ \A n \in 1 .. Len(conversations) : \A a \in Address :
            occurrences(getConversations(a), conversationAddressOf(n)) =
                IF a \in {conversations[n].participant1, conversations[n].participant2}
                THEN 1 ELSE 0
    /\ \A a \in Address : Range(getConversations(a)) \subseteq ConversationAddresses
    /\ \A s \in Users, o \in Address :
            (o = ZeroAddress \/ o = s \/ conversationExists(s, o)) =>
                ~ENABLED createConversation(s, o)

\* C21 witness: two conversations that share a participant; the directory still has
\* room when a further call for one of the two pairs is refused.
C21_Witness ==
    /\ Len(conversations) = 2
    /\ \E a \in Users : getConversationCount(a) = 2
    /\ \E a \in Users : getConversationCount(a) = 1
    /\ last.op = "createConversation"

\* C22: the session public key stored for any address is absent (length 0) or
\* exactly 64 bytes long, also after transferProfileOwnership moved it, and
\* setSessionPublicKey with any other length fails, leaving the stored key as it is.
C22_SessionKeyIs64Bytes ==
    /\ \A a \in Address : getSessionPublicKey(a).len \in {0, 64}
    /\ \A s \in Users, k \in SessionKeys :
            k.len # 64 => ~ENABLED setSessionPublicKey(s, k)

\* C22 witness: a key arrived at its address through a transfer, and the new owner
\* holds a profile with which a key of 63 or 65 bytes is refused.
C22_Witness ==
    /\ last.op = "transferProfileOwnership"
    /\ \E a \in Users :
            /\ onlyProfileOwner(a)
            /\ hasSessionPublicKey(a)
            /\ getSessionPublicKey(a) = Str(64, "key")
            /\ ~ENABLED setSessionPublicKey(a, Str(63, "short"))
            /\ ~ENABLED setSessionPublicKey(a, Str(65, "long"))

\* C23: createProfile and createDefaultProfile fail for a caller that has a profile,
\* and an address that has a profile keeps one in every later state until that
\* address itself successfully calls transferProfileOwnership.
C23_ProfileCreatedOnceLostByTransfer ==
    /\ [](\A a \in Users : hasProfile(a) =>
            /\ ~ENABLED createDefaultProfile(a)
            /\ \A n \in DisplayNames, b \in Bios : ~ENABLED createProfile(a, n, b))
    /\ [][\A a \in Address : (hasProfile(a) /\ ~hasProfile(a)') =>
            /\ last'.op = "transferProfileOwnership"
            /\ \E n \in Address : transferProfileOwnership(a, n)]_vars

\* C23 witness: an address gave its profile away, the receiver holds it and is
\* refused a second one, and a third address holds a profile throughout.
C23_Witness ==
    /\ last.op = "transferProfileOwnership"
    /\ \E a, b, c \in Users :
            /\ a # b /\ b # c /\ a # c
            /\ ~hasProfile(a)
            /\ hasProfile(b)
            /\ hasProfile(c)
            /\ getProfile(b).displayName = _addressToShortString(a)
            /\ ~ENABLED createDefaultProfile(b)

validDisplayName(n) == n.len >= 1 /\ n.len <= 50

validBio(b) == b.len <= 500

\* C25: every existing profile has a displayName of 1 to 50 bytes and a bio of at
\* most 500 bytes, whichever of createProfile, createDefaultProfile, setDisplayName,
\* setBio or transferProfileOwnership wrote them, and a call with a value out of
\* these bounds fails, leaving the profile as it is.
C25_ProfileFieldsWithinBounds ==
    /\ \A a \in Address : hasProfile(a) =>
            validDisplayName(getProfile(a).displayName) /\ validBio(getProfile(a).bio)
    /\ \A s \in Users :
            /\ \A n \in DisplayNames, b \in Bios :
                    (~validDisplayName(n) \/ ~validBio(b)) => ~ENABLED createProfile(s, n, b)
            /\ \A n \in DisplayNames : ~validDisplayName(n) => ~ENABLED setDisplayName(s, n)
            /\ \A b \in Bios : ~validBio(b) => ~ENABLED setBio(s, b)

\* C25 witness: a profile created with the default name, given a bio and transferred;
\* its new owner is refused an empty name, a name of 51 bytes and a bio of 501.
C25_Witness ==
    /\ last.op = "transferProfileOwnership"
    /\ \E a \in Users :
            /\ onlyProfileOwner(a)
            /\ getProfile(a).displayName.len = 10
            /\ getProfile(a).bio = Str(3, "bio")
            /\ ~ENABLED setDisplayName(a, EmptyString)
            /\ ~ENABLED setDisplayName(a, Str(51, "long"))
            /\ ~ENABLED setBio(a, Str(501, "long"))

validLink(l) == l.name.len >= 1 /\ l.name.len <= 50 /\ l.url.len >= 1 /\ l.url.len <= 200

\* C24: every address has at most 10 links, each with a name of 1 to 50 bytes and a
\* url of 1 to 200 bytes, also after transferProfileOwnership moved the list, and an
\* addLink that would make an 11th link fails, leaving the list as it is.
C24_AtMostTenValidLinks ==
    /\ \A a \in Address :
            /\ getLinkCount(a) <= 10
            /\ \A i \in DOMAIN getLinks(a) : validLink(getLinks(a)[i])
    /\ \A s \in Users : getLinkCount(s) = 10 =>
            ~ENABLED addLink(s, Str(4, "site"), Str(9, "https://a"))

\* C24 witness: a full list of 10 links arrived at its owner through a transfer, and
\* the owner is refused an 11th.
C24_Witness ==
    /\ last.op = "transferProfileOwnership"
    /\ \E a \in Users :
            /\ onlyProfileOwner(a)
            /\ getLinkCount(a) = 10
            /\ ~ENABLED addLink(a, Str(4, "site"), Str(9, "https://a"))

\* C26: getLatestMessages(n) never fails and returns the last min(n, total) messages
\* in ledger order: every message when n >= total, none when n is 0 or the
\* conversation is empty.
C26_GetLatestMessages ==
    /\ [](\A c \in ConversationAddresses, count \in ReadArgs :
            ENABLED getLatestMessages(c, count))
    /\ [][\A c \in ConversationAddresses, count \in ReadArgs :
            last'.op = "getLatestMessages" /\ getLatestMessages(c, count) =>
                LET total == getMessageCount(c)
                    returned == IF count < total THEN count ELSE total
                IN  /\ Len(last'.ret) = returned
                    /\ \A k \in 1 .. returned :
                            last'.ret[k] = getMessage(c, total - returned + k - 1)
                    /\ count >= total =>
                            last'.ret = [k \in 1 .. total |-> getMessage(c, k - 1)]
                    /\ (count = 0 \/ total = 0) => last'.ret = <<>>]_vars

\* C26 witness: the latest one of two different messages was read.
C26_Witness ==
    /\ last.op = "getLatestMessages"
    /\ \E c \in ConversationAddresses :
            /\ getMessageCount(c) = 2
            /\ getMessage(c, 0) # getMessage(c, 1)
            /\ last.ret = <<getMessage(c, 1)>>

\* C27: removeLink(index) with index below the length leaves a list one shorter that
\* is the old list with the entry at index replaced by the old last entry and the
\* last slot dropped, every other entry in its position; with index at or beyond the
\* length it fails, leaving the list as it is.
C27_RemoveLinkSwapsLastIn ==
    /\ [](\A s \in Users, index \in 0 .. MaxOrderedLinks + 1 :
            index >= getLinkCount(s) => ~ENABLED removeLink(s, index))
    /\ [][\A s \in Users, index \in 0 .. MaxOrderedLinks + 1 :
            last'.op = "removeLink" /\ removeLink(s, index) =>
                LET old == getLinks(s)
                    new == getLinks(s)'
                IN  /\ Len(new) = Len(old) - 1
                    /\ \A k \in 1 .. Len(new) :
                            new[k] = IF k = index + 1 THEN old[Len(old)] ELSE old[k]]_vars

\* C27 witness: the first of three different links was removed; the third stands in
\* its place, before the second.
C27_Witness ==
    /\ last.op = "removeLink"
    /\ getLinkCount(1) = 2
    /\ getLinks(1)[1].url = Str(9, "https://c")
    /\ getLinks(1)[2].url = Str(9, "https://b")
    /\ ~ENABLED removeLink(1, 2)

\* C28: while an authorizeDelegate or fundWallet transaction sent through the hook
\* awaits its confirmation, isLoading is true; it turns false only when none is left
\* in flight, also when two of them overlap.
C28_LoadingWhileInFlight ==
    (authorizing # {} \/ funding > 0) => isLoading

\* C29: disconnecting never deletes the in-app wallet: the stored key stays what it
\* is, and the wallet the hook holds in standalone mode is the stored one, so that
\* picking the in-app wallet again gives the address it had before the disconnect.
C29_DisconnectKeepsInAppWallet ==
    /\ [](currentMode = "standalone" /\ appWallet # ZeroAddress =>
            appWallet = standaloneWallet)
    /\ [][standaloneWallet # ZeroAddress => standaloneWallet' = standaloneWallet]_vars

\* The addresses whose recorded votes count for the owner o: o and its delegates.
votersOf(o) == {o} \cup {d \in Address : isDelegate[o][d]}

\* C30: for every entity, a profile owner together with all of its currently
\* registered delegates contributes at most one recorded vote to the tally.
C30_OneVotePerOwnerAndDelegates ==
    \A e \in Entities, o \in Users :
        hasProfile(o) =>
            Cardinality({a \in votersOf(o) : userVotes[e][a] # "None"}) <= 1

\* C32: identity resolution is idempotent: for every address x whose resolution is
\* not none, resolveToOwner(resolveToOwner(x)) = resolveToOwner(x).
C32_ResolutionIdempotent ==
    \A x \in Address :
        resolveToOwner(x) # ZeroAddress =>
            resolveToOwner(resolveToOwner(x)) = resolveToOwner(x)

\* C33: whenever resolveToOwner(x) returns an address o other than none, o has a
\* profile, so that o is able to remove the delegate x.
C33_ResolvedOwnerHasProfile ==
    \A x \in Address :
        resolveToOwner(x) # ZeroAddress => hasProfile(resolveToOwner(x))

\* C39: the two delegate stores agree: for every owner o and address d, the
\* delegate-to-owner entry of d is o exactly when d is marked in o's delegate set.
C39_DelegateStoresAgree ==
    \A o \in Users, d \in Address :
        (delegateToOwner[d] = o) <=> isDelegate[o][d]

\* C39 witness: an owner removed one of its two delegates and kept the other, and a
\* former owner that gave its profile away still has its delegate marked.
C39_Witness ==
    /\ last.op = "removeDelegate"
    /\ \E o \in Users, d \in Users :
            /\ hasProfile(o)
            /\ isDelegate[o][d]
            /\ canActAs(d, o)
            /\ \E r \in Users \ {o, d} :
                    delegateToOwner[r] = ZeroAddress /\ ~hasProfile(r)

\* C37: an address that has no profile has no links and no session public key
\* stored under it.
C37_NoProfileNoData ==
    \A a \in Address :
        ~hasProfile(a) => getLinkCount(a) = 0 /\ ~hasSessionPublicKey(a)

\* C37 witness: an address that had links and a session key gave its profile away;
\* the new owner holds them and the old address holds nothing.
C37_Witness ==
    /\ last.op = "transferProfileOwnership"
    /\ \E a, b \in Users :
            /\ ~hasProfile(a)
            /\ getLinkCount(a) = 0
            /\ hasProfile(b)
            /\ getLinkCount(b) = 2
            /\ hasSessionPublicKey(b)

\* The identities whose recorded vote on an entity is the given one.
recordedVotes(entityId, voteType) ==
    {a \in Address : userVotes[entityId][a] = voteType}

\* C38: for every entity the upvote count equals the number of identities whose
\* recorded vote is Up and the downvote count the number whose recorded vote is
\* Down, and no counter underflows: changing a vote succeeds for every voter with a
\* profile and removing a vote succeeds for every sender with a recorded vote.
C38_TalliesEqualRecordedVotes ==
    \A e \in Entities :
        /\ getTally(e).upvotes = Cardinality(recordedVotes(e, "Up"))
        /\ getTally(e).downvotes = Cardinality(recordedVotes(e, "Down"))
        /\ \A sender \in Users :
                /\ hasProfile(_resolveVoter(sender)) =>
                        /\ ENABLED vote(sender, e, "Up")
                        /\ ENABLED vote(sender, e, "Down")
                /\ userVotes[e][_resolveVoter(sender)] # "None" =>
                        ENABLED removeVote(sender, e)

\* C38 witness: a voter changed its vote on an entity that another identity has
\* voted on as well, so both counters are in use.
C38_Witness ==
    /\ last.op = "vote"
    /\ \E e \in Entities :
            /\ getTally(e).upvotes = 1
            /\ getTally(e).downvotes = 2
            /\ Cardinality(recordedVotes(e, "Down")) = 2

\* C31: the following and followers lists mirror each other: isFollowing(a, b)
\* holds exactly when b occurs in getFollowing(a) and exactly when a occurs in
\* getFollowers(b), no list holds an address twice, and the counts are the lengths
\* of the lists.
C31_FollowListsMirror ==
    /\ \A a, b \in Address :
            /\ isFollowing(a, b) <=> b \in Range(getFollowing(a))
            /\ isFollowing(a, b) <=> a \in Range(getFollowers(b))
    /\ \A a \in Address :
            /\ Cardinality(Range(getFollowing(a))) = Len(getFollowing(a))
            /\ Cardinality(Range(getFollowers(a))) = Len(getFollowers(a))
            /\ getFollowingCount(a) = Len(getFollowing(a))
            /\ getFollowerCount(a) = Len(getFollowers(a))

\* C31 witness: an unfollow took an entry out of the front of a list of two, so the
\* last entry moved, and the followee still has another follower.
C31_Witness ==
    /\ last.op = "unfollow"
    /\ \E a, b, c \in Users :
            /\ getFollowing(a) = <<c>>
            /\ ~isFollowing(a, b)
            /\ isFollowing(b, c)
            /\ getFollowers(c) = <<b, a>>

\* C36: while a follow made by a call from address x is recorded, an unfollow call
\* from x for the same target succeeds and removes that follow, whatever x has
\* become in the identity registry since.
C36_FollowUndoneByItsCaller ==
    \A f \in Address, u \in Address :
        isFollowing(f, u) =>
            /\ ENABLED unfollow(followedFrom[f][u], u)
            /\ _resolveFollower(followedFrom[f][u]) = f

\* The delegate wallet stored for the connected account is the hook's wallet and is
\* registered on-chain as that account's delegate, and the on-chain delegate check
\* the hook holds reads the registry.
registeredDelegateLoaded ==
    /\ userAddress # ZeroAddress
    /\ isWalletAuthorizedFor(userAddress)
    /\ appWallet = getStoredWalletInfo.wallet
    /\ isDelegate[userAddress][appWallet]
    /\ getReadContract

\* C34: when the stored delegate wallet of the connected browser account is
\* registered on-chain as its delegate, then after the connect or the reload, once
\* the on-chain delegate check is available to the hook, isAuthorized becomes true
\* without any step of the user.
C34_RegisteredDelegateBecomesAuthorized ==
    registeredDelegateLoaded ~> (isAuthorized \/ ~registeredDelegateLoaded)

\* C35: when the clients of a pair have each started a conversation with the other
\* and both handlers have finished, both have the same conversation selected, the
\* one the directory holds for the pair: the side whose createConversation was
\* refused is in the conversation the other side created.
C35_BothEndInSameConversation ==
    (/\ startingDM[1].at \in {"done", "failed"}
     /\ startingDM[1].other = 2
     /\ startingDM[2].at \in {"done", "failed"}
     /\ startingDM[2].other = 1)
        => /\ selectedConversation[1] = selectedConversation[2]
           /\ selectedConversation[1] = getConversation(1, 2)
           /\ selectedConversation[1] # ZeroAddress

====
